---- MODULE Spec2Model ----
(***************************************************************************)
(* Rules engine of src/script.js (browser chess game "xadrez").            *)
(*                                                                         *)
(* State: VIRTUAL_BOARD (8x8 grid of piece objects or null), ATTACK_BOARD  *)
(* (8x8 grid of sets of colours), the GameState store, and the content of  *)
(* the modal dialog as far as it carries the promotion choice.             *)
(* Handlers: cellClicked (click on a board cell), promotePawn (click on a  *)
(* piece symbol of the promotion dialog), the Escape key (closeModal).     *)
(*                                                                         *)
(* Squares are pairs <<row, col>> with row 0 = black's back rank and       *)
(* row 7 = white's back rank, exactly as in the source.  A piece object    *)
(* {name, type, positions, color, symbol, pathImg} is modelled by the      *)
(* fields the rules read: type, color and positions (positions is always   *)
(* a one-element array in the source; the model keeps that element).       *)
(* Move lists are arrays in the source that are only ever searched with    *)
(* .some(); the model keeps them as sets of squares.  The DOM (images,     *)
(* highlights) is written but never read by the rules and is left out.     *)
(***************************************************************************)
EXTENDS Integers, FiniteSets, Sequences, TLC

VARIABLES
    VIRTUAL_BOARD,   \* [square -> piece or Null]
    ATTACK_BOARD,    \* [square -> set of colours]
    GameState,       \* the record held by the GameState store
    modalPrompt,     \* <<>> or <<from, to>>: the promotion choice shown in the modal
    inputs,          \* the squares the players click in this game
    last,            \* what the latest handler did (its branch and arguments)
    history,         \* facts about the committed moves so far
    listeners,       \* the store's array of subscribed callbacks, in order
    clients          \* what the callbacks do and what they were last called with

vars == <<VIRTUAL_BOARD, ATTACK_BOARD, GameState, modalPrompt, inputs, last, history,
          listeners, clients>>

Colors == {"white", "black"}

Squares == (0..7) \X (0..7)

\* null (empty cell, no selection); also the falsy `false` of an off-board lookup
Null == [type |-> "null", color |-> "null", positions |-> <<>>]

\* null value of lastPawnDoubleMove
NullDoubleMove == [color |-> "null", positions |-> {}]

INITIAL_POSITIONS ==
    << <<"r", "n", "b", "q", "k", "b", "n", "r">>,
       <<"p", "p", "p", "p", "p", "p", "p", "p">>,
       <<".", ".", ".", ".", ".", ".", ".", ".">>,
       <<".", ".", ".", ".", ".", ".", ".", ".">>,
       <<".", ".", ".", ".", ".", ".", ".", ".">>,
       <<".", ".", ".", ".", ".", ".", ".", ".">>,
       <<"P", "P", "P", "P", "P", "P", "P", "P">>,
       <<"R", "N", "B", "Q", "K", "B", "N", "R">> >>

\* INITIAL_POSITIONS[r][c] of the source (0-based)
FENChar(r, c) == INITIAL_POSITIONS[r + 1][c + 1]

PIECE_TYPES ==
    [PAWN |-> "pawn", ROOK |-> "rook", KNIGHT |-> "knight",
     BISHOP |-> "bishop", QUEEN |-> "queen", KING |-> "king"]

Opponent(color) == IF color = "white" THEN "black" ELSE "white"

----------------------------------------------------------------------------
(* Board set-up *)

initializeVirtualBoard == [s \in Squares |-> Null]

initializeAttackBoard == [s \in Squares |-> {}]

\* the piece created for the character at row r, column c (char # ".")
createPiecesWithFEN(r, c) ==
    LET char == FENChar(r, c)
        isWhite == char \in {"P", "R", "N", "B", "Q", "K"}
        type == CASE char \in {"p", "P"} -> PIECE_TYPES.PAWN
                  [] char \in {"r", "R"} -> PIECE_TYPES.ROOK
                  [] char \in {"n", "N"} -> PIECE_TYPES.KNIGHT
                  [] char \in {"b", "B"} -> PIECE_TYPES.BISHOP
                  [] char \in {"q", "Q"} -> PIECE_TYPES.QUEEN
                  [] char \in {"k", "K"} -> PIECE_TYPES.KING
    IN [type |-> type,
        color |-> IF isWhite THEN "white" ELSE "black",
        positions |-> <<r, c>>]

\* VIRTUAL_BOARD after addPieces: every piece written to its own square
addPieces ==
    [s \in Squares |->
        IF FENChar(s[1], s[2]) = "." THEN initializeVirtualBoard[s]
        ELSE createPiecesWithFEN(s[1], s[2])]

\* The callbacks a page may pass to GameState.subscribe.  The script itself
\* subscribes none, so in a game the array stays empty and set() and reset()
\* notify nobody.
ListenerIds == {"f", "g", "h"}

\* clients.unsubscribesItself: the callbacks that call their own unsubscribe
\* function when invoked; clients.calls and clients.received: how often each
\* callback was invoked in the latest notification, and with which state
InitialClients ==
    [unsubscribesItself |-> {},
     calls |-> [fn \in ListenerIds |-> 0],
     received |-> [fn \in ListenerIds |-> <<>>]]

InitialGameState ==
    [currentPlayer |-> "white",
     selectedPiece |-> Null,
     check |-> FALSE,
     checkmate |-> FALSE,
     kingPositions |-> [white |-> <<7, 4>>, black |-> <<0, 4>>],
     lastPawnDoubleMove |-> NullDoubleMove,
     enPassantPosition |-> <<>>,
     promotionPending |-> Null]

----------------------------------------------------------------------------
(* Auxiliary predicates and look-ups *)

isValidBoardPosition(row, col) == row >= 0 /\ row < 8 /\ col >= 0 /\ col < 8

getPiecePositionOnVirtualBoard(position) ==
    IF ~isValidBoardPosition(position[1], position[2]) THEN Null
    ELSE VIRTUAL_BOARD[position]

hasPieceAtPosition(position) ==
    IF ~isValidBoardPosition(position[1], position[2]) THEN FALSE
    ELSE VIRTUAL_BOARD[position] # Null

\* all squares holding pieceChar, and the first of them in row-major order
FENSquares(pieceChar) == {s \in Squares : FENChar(s[1], s[2]) = pieceChar}

RowMajorBefore(s, t) == s[1] < t[1] \/ (s[1] = t[1] /\ s[2] < t[2])

getInitialPositionFromFEN(pieceChar) ==
    CHOOSE s \in FENSquares(pieceChar) :
        \A t \in FENSquares(pieceChar) \ {s} : RowMajorBefore(s, t)

isKingInCheck(kingPositions, color) ==
    Opponent(color) \in ATTACK_BOARD[kingPositions[color]]

\* The bodies of isCheckmate and isStalemate are a TODO comment: a call returns
\* undefined, which every test reads as false.
isCheckmate(color) == FALSE

isStalemate(color) == FALSE

isKingInInitialPosition(color) ==
    LET kingChar == IF color = "white" THEN "K" ELSE "k"
    IN getInitialPositionFromFEN(kingChar) = GameState.kingPositions[color]

isRookInInitialPosition(color, side) ==
    LET rookChar == IF color = "white" THEN "R" ELSE "r"
        positions == FENSquares(rookChar)
        first == CHOOSE s \in positions : \A t \in positions \ {s} : RowMajorBefore(s, t)
        second == CHOOSE s \in positions : s # first
        rookPos == IF side = "kingside" THEN second ELSE first
        piece == VIRTUAL_BOARD[rookPos]
    IN IF Cardinality(positions) # 2 THEN FALSE
       ELSE piece # Null /\ piece.type = "rook" /\ piece.color = color

----------------------------------------------------------------------------
(* Attack generation *)

\* the square k steps from position along direction d
Step(position, d, k) == <<position[1] + k * d[1], position[2] + k * d[2]>>

\* along each direction: every square up to and including the first occupied one
getSlidingMoves(position, directions) ==
    {sq \in {Step(position, d, k) : d \in directions, k \in 1..7} :
        /\ isValidBoardPosition(sq[1], sq[2])
        /\ \E d \in directions, k \in 1..7 :
              /\ sq = Step(position, d, k)
              /\ \A j \in 1..(k - 1) : VIRTUAL_BOARD[Step(position, d, j)] = Null}

RookDirections == {<<1, 0>>, <<-1, 0>>, <<0, 1>>, <<0, -1>>}

BishopDirections == {<<1, 1>>, <<-1, -1>>, <<1, -1>>, <<-1, 1>>}

KnightOffsets ==
    {<<-2, -1>>, <<-2, 1>>, <<-1, -2>>, <<-1, 2>>,
     <<1, -2>>, <<1, 2>>, <<2, -1>>, <<2, 1>>}

KingOffsets == RookDirections \cup BishopDirections

\* getAttackingMoves leaving out the squares held by the piece's own colour
getAttackingMoves_skipsOwn(position, piece) ==
    LET direction == IF piece.color = "white" THEN -1 ELSE 1
        all ==
            CASE piece.type = "pawn" ->
                   {<<position[1] + direction, position[2] - 1>>,
                    <<position[1] + direction, position[2] + 1>>}
              [] piece.type = "rook" -> getSlidingMoves(position, RookDirections)
              [] piece.type = "bishop" -> getSlidingMoves(position, BishopDirections)
              [] piece.type = "queen" ->
                   getSlidingMoves(position, RookDirections \cup BishopDirections)
              [] piece.type = "knight" -> {Step(position, d, 1) : d \in KnightOffsets}
              [] piece.type = "king" -> {Step(position, d, 1) : d \in KingOffsets}
              [] OTHER -> {}
    IN {sq \in all :
          /\ isValidBoardPosition(sq[1], sq[2])
          /\ VIRTUAL_BOARD[sq].color # piece.color}

getAttackingMoves(position, piece) ==
    LET row == position[1]
        col == position[2]
        color == piece.color
        type == piece.type
        direction == IF color = "white" THEN -1 ELSE 1
    IN CASE type = "pawn" ->
              {sq \in {<<row + direction, col - 1>>, <<row + direction, col + 1>>} :
                  isValidBoardPosition(sq[1], sq[2])}
         [] type = "rook" -> getSlidingMoves(position, RookDirections)
         [] type = "bishop" -> getSlidingMoves(position, BishopDirections)
         [] type = "queen" ->
              getSlidingMoves(position, RookDirections \cup BishopDirections)
         [] type = "knight" ->
              {sq \in {Step(position, d, 1) : d \in KnightOffsets} :
                  isValidBoardPosition(sq[1], sq[2])}
         [] type = "king" ->
              {sq \in {Step(position, d, 1) : d \in KingOffsets} :
                  isValidBoardPosition(sq[1], sq[2])}
         [] OTHER -> {}

----------------------------------------------------------------------------
(* Move generation *)

canEnPassant(fromPosition) ==
    LET pawn == getPiecePositionOnVirtualBoard(fromPosition)
        lastPawnDoubleMove == GameState.lastPawnDoubleMove
        row == fromPosition[1]
        col == fromPosition[2]
        direction == IF pawn.color = "white" THEN -1 ELSE 1
        enPassantRow == IF pawn.color = "white" THEN 3 ELSE 4
    IN IF pawn = Null \/ pawn.type # "pawn" THEN {}
       ELSE IF lastPawnDoubleMove = NullDoubleMove THEN {}
       ELSE IF row # enPassantRow THEN {}
       ELSE {<<row + direction, adjCol>> : adjCol \in
               {a \in {col - 1, col + 1} :
                   /\ isValidBoardPosition(row, a)
                   /\ LET adjacentPawn == getPiecePositionOnVirtualBoard(<<row, a>>)
                      IN /\ adjacentPawn # Null
                         /\ adjacentPawn.type = "pawn"
                         /\ adjacentPawn.color # pawn.color
                         /\ <<row, a>> \in lastPawnDoubleMove.positions}}

\* getPawnMove testing the double advance outside the test of the square in front
getPawnMove_jumps(position) ==
    LET row == position[1]
        col == position[2]
        color == getPiecePositionOnVirtualBoard(position).color
        direction == IF color = "white" THEN -1 ELSE 1
        initialRow == IF color = "white" THEN 6 ELSE 1
        forward ==
            (IF ~hasPieceAtPosition(<<row + direction, col>>)
             THEN {<<row + direction, col>>} ELSE {})
            \cup (IF row = initialRow /\ ~hasPieceAtPosition(<<row + 2 * direction, col>>)
                  THEN {<<row + 2 * direction, col>>} ELSE {})
        diagonals ==
            {sq \in {<<row + direction, col - 1>>, <<row + direction, col + 1>>} :
                /\ isValidBoardPosition(sq[1], sq[2])
                /\ LET targetPiece == getPiecePositionOnVirtualBoard(sq)
                   IN targetPiece # Null /\ targetPiece.color # color}
    IN forward \cup diagonals \cup canEnPassant(position)

getPawnMove(position) ==
    LET row == position[1]
        col == position[2]
        color == getPiecePositionOnVirtualBoard(position).color
        direction == IF color = "white" THEN -1 ELSE 1
        initialRow == IF color = "white" THEN 6 ELSE 1
        forward ==
            IF ~hasPieceAtPosition(<<row + direction, col>>)
            THEN {<<row + direction, col>>} \cup
                 (IF row = initialRow /\ ~hasPieceAtPosition(<<row + 2 * direction, col>>)
                  THEN {<<row + 2 * direction, col>>} ELSE {})
            ELSE {}
        diagonals ==
            {sq \in {<<row + direction, col - 1>>, <<row + direction, col + 1>>} :
                /\ isValidBoardPosition(sq[1], sq[2])
                /\ LET targetPiece == getPiecePositionOnVirtualBoard(sq)
                   IN targetPiece # Null /\ targetPiece.color # color}
    IN forward \cup diagonals \cup canEnPassant(position)

\* getRookMove taking the first piece it meets whatever its colour
getRookMove_takesOwn(position) ==
    {sq \in {Step(position, d, k) : d \in RookDirections, k \in 1..7} :
        /\ isValidBoardPosition(sq[1], sq[2])
        /\ \E d \in RookDirections, k \in 1..7 :
              /\ sq = Step(position, d, k)
              /\ \A j \in 1..(k - 1) : VIRTUAL_BOARD[Step(position, d, j)] = Null}

getRookMove(position) ==
    LET piece == getPiecePositionOnVirtualBoard(position)
    IN {sq \in {Step(position, d, k) : d \in RookDirections, k \in 1..7} :
          /\ isValidBoardPosition(sq[1], sq[2])
          /\ \E d \in RookDirections, k \in 1..7 :
                /\ sq = Step(position, d, k)
                /\ \A j \in 1..(k - 1) : VIRTUAL_BOARD[Step(position, d, j)] = Null
          /\ LET targetPiece == getPiecePositionOnVirtualBoard(sq)
             IN targetPiece = Null \/ targetPiece.color # piece.color}

getKnightMove(position) ==
    LET piece == getPiecePositionOnVirtualBoard(position)
    IN {sq \in {Step(position, d, 1) : d \in KnightOffsets} :
          /\ isValidBoardPosition(sq[1], sq[2])
          /\ LET targetPiece == getPiecePositionOnVirtualBoard(sq)
             IN targetPiece = Null \/ targetPiece.color # piece.color}

getBishopMove(position) ==
    LET piece == getPiecePositionOnVirtualBoard(position)
    IN {sq \in {Step(position, d, k) : d \in BishopDirections, k \in 1..7} :
          /\ isValidBoardPosition(sq[1], sq[2])
          /\ \E d \in BishopDirections, k \in 1..7 :
                /\ sq = Step(position, d, k)
                /\ \A j \in 1..(k - 1) : VIRTUAL_BOARD[Step(position, d, j)] = Null
          /\ LET targetPiece == getPiecePositionOnVirtualBoard(sq)
             IN targetPiece = Null \/ targetPiece.color # piece.color}

getQueenMove(position) == getRookMove(position) \cup getBishopMove(position)

\* VIRTUAL_BOARD[row][col] and ATTACK_BOARD[row][col] as canCastle reads them
\* (an index outside the row yields undefined: falsy, no attackers)
BoardCell(row, col) ==
    IF isValidBoardPosition(row, col) THEN VIRTUAL_BOARD[<<row, col>>] ELSE Null

AttackCell(row, col) ==
    IF isValidBoardPosition(row, col) THEN ATTACK_BOARD[<<row, col>>] ELSE {}

\* canCastle without the test of the squares between king and rook
canCastle_ignoresPath(fromPosition, toPosition, color) ==
    LET fromCol == fromPosition[2]
        row == IF color = "white" THEN 7 ELSE 0
        isKingside == toPosition[2] > fromCol
        side == IF isKingside THEN "kingside" ELSE "queenside"
        kingPathCols == IF isKingside THEN {fromCol, fromCol + 1, fromCol + 2}
                        ELSE {fromCol, fromCol - 1, fromCol - 2}
        safePath == \A col \in kingPathCols : Opponent(color) \notin AttackCell(row, col)
    IN /\ isKingInInitialPosition(color)
       /\ isRookInInitialPosition(color, side)
       /\ ~isKingInCheck(GameState.kingPositions, color)
       /\ safePath

canCastle(fromPosition, toPosition, color) ==
    LET fromCol == fromPosition[2]
        row == IF color = "white" THEN 7 ELSE 0
        isKingside == toPosition[2] > fromCol
        side == IF isKingside THEN "kingside" ELSE "queenside"
        intermediateCols == IF isKingside THEN {fromCol + 1, fromCol + 2}
                            ELSE {fromCol - 3, fromCol - 2, fromCol - 1}
        pathClear == \A col \in intermediateCols : BoardCell(row, col) = Null
        kingPathCols == IF isKingside THEN {fromCol, fromCol + 1, fromCol + 2}
                        ELSE {fromCol, fromCol - 1, fromCol - 2}
        opponentColor == Opponent(color)
        safePath == \A col \in kingPathCols : opponentColor \notin AttackCell(row, col)
    IN IF ~isKingInInitialPosition(color) THEN FALSE
       ELSE IF ~isRookInInitialPosition(color, side) THEN FALSE
       ELSE IF ~pathClear THEN FALSE
       ELSE IF isKingInCheck(GameState.kingPositions, color) THEN FALSE
       ELSE IF ~safePath THEN FALSE
       ELSE TRUE

getKingMove(position) ==
    LET row == position[1]
        piece == getPiecePositionOnVirtualBoard(position)
        steps ==
            {sq \in {Step(position, d, 1) : d \in KingOffsets} :
                /\ isValidBoardPosition(sq[1], sq[2])
                /\ LET targetPiece == getPiecePositionOnVirtualBoard(sq)
                   IN targetPiece = Null \/ targetPiece.color # piece.color}
    IN steps
       \cup (IF canCastle(position, <<row, 6>>, piece.color) THEN {<<row, 6>>} ELSE {})
       \cup (IF canCastle(position, <<row, 2>>, piece.color) THEN {<<row, 2>>} ELSE {})

getPossibleMoves(position, piece) ==
    CASE piece.type = "pawn" -> getPawnMove(position)
      [] piece.type = "rook" -> getRookMove(position)
      [] piece.type = "knight" -> getKnightMove(position)
      [] piece.type = "bishop" -> getBishopMove(position)
      [] piece.type = "queen" -> getQueenMove(position)
      [] piece.type = "king" -> getKingMove(position)
      [] OTHER -> {}

isValidateMove(fromPosition, toPosition, piece) ==
    toPosition \in getPossibleMoves(fromPosition, piece)

\* isMoveSafe putting the moved piece back and forgetting the captured one
isMoveSafe_forgetsCaptured(fromPosition, toPosition, color) ==
    LET originalPiece == VIRTUAL_BOARD[fromPosition]
        simBoard == [VIRTUAL_BOARD EXCEPT ![fromPosition] = Null,
                                          ![toPosition] = originalPiece]
    IN [safe |-> ~isKingInCheck(GameState.kingPositions, color),
        VIRTUAL_BOARD |-> [simBoard EXCEPT ![fromPosition] = originalPiece],
        ATTACK_BOARD |-> ATTACK_BOARD,
        kingPositions |-> GameState.kingPositions]

\* The simulation of isMoveSafe, step by step: the result, and the board and king
\* positions it leaves behind.  ATTACK_BOARD is read, never rebuilt.
isMoveSafe(fromPosition, toPosition, color) ==
    LET originalPiece == VIRTUAL_BOARD[fromPosition]
        capturedPiece == VIRTUAL_BOARD[toPosition]
        originalKingPosition == GameState.kingPositions[color]
        simBoard == [VIRTUAL_BOARD EXCEPT ![fromPosition] = Null,
                                          ![toPosition] = originalPiece]
        simKingPositions ==
            IF originalPiece.type = "king"
            THEN [GameState.kingPositions EXCEPT ![color] = toPosition]
            ELSE GameState.kingPositions
        kingIsInCheck == isKingInCheck(simKingPositions, color)
        restoredBoard == [simBoard EXCEPT ![fromPosition] = originalPiece,
                                          ![toPosition] = capturedPiece]
        restoredKingPositions ==
            IF originalPiece.type = "king"
            THEN [simKingPositions EXCEPT ![color] = originalKingPosition]
            ELSE simKingPositions
    IN [safe |-> ~kingIsInCheck,
        VIRTUAL_BOARD |-> restoredBoard,
        ATTACK_BOARD |-> ATTACK_BOARD,
        kingPositions |-> restoredKingPositions]

----------------------------------------------------------------------------
(* State-changing functions.  A handler runs to completion, so each is a    *)
(* function from the state it finds to the state it leaves: st holds        *)
(* VIRTUAL_BOARD, GameState, modalPrompt and log, the record of what the    *)
(* running handler has done so far.                                         *)

NoLog ==
    [ev |-> "none", from |-> <<>>, to |-> <<>>, color |-> "null", type |-> "null",
     check |-> FALSE, enPassant |-> FALSE, outside |-> FALSE,
     updatedOn |-> <<>>, attackBefore |-> <<>>]

\* log.ev names the branch the handler took: "ignored", "select", "noPiece",
\* "illegal", "unsafe", "invalidCastle", "castle" (executeCastle entered), "prompt",
\* "move" (executeMove from validateMove), "promote", "badKey", "escape",
\* "restart"; log.enPassant: handleEnPassant found the destination among
\* canEnPassant's; for "ignored", log.color is the colour of the piece clicked
\* ("null" for an empty square); for "restart", the player whose turn it was;
\* log.outside: the click was on a position outside the board; log.updatedOn: the
\* board updateAttackBoardPosition last read in the handler, log.attackBefore:
\* ATTACK_BOARD when isMoveSafe was entered (both of the Set-based iteration,
\* <<>> when there was no such call)

\* openModal with a message other than the promotion choice replaces that choice
openModal(st) == [st EXCEPT !.modalPrompt = <<>>]

closeModal(st) == [st EXCEPT !.modalPrompt = <<>>]

\* clearSelectedPiece with the write to the store forgotten
clearSelectedPiece_noWrite(st) == st

clearSelectedPiece(st) == [st EXCEPT !.GameState.selectedPiece = Null]

\* toggleCurrentPlayer with the write to the store forgotten
toggleCurrentPlayer_noWrite(st) == st

toggleCurrentPlayer(st) ==
    [st EXCEPT !.GameState.currentPlayer = IF @ = "white" THEN "black" ELSE "white"]

\* updateVirutualBoardPosition without the write of piece.positions
updateVirutualBoardPosition_staleCache(st, fromPosition, toPosition, piece) ==
    [st EXCEPT !.VIRTUAL_BOARD =
        [[@ EXCEPT ![fromPosition] = Null] EXCEPT ![toPosition] = piece]]

updateVirutualBoardPosition(st, fromPosition, toPosition, piece) ==
    [st EXCEPT !.VIRTUAL_BOARD =
        [[@ EXCEPT ![fromPosition] = Null]
            EXCEPT ![toPosition] = [piece EXCEPT !.positions = toPosition]]]

\* setKingPosition with the write to the store forgotten
setKingPosition_noWrite(st, piece, position) == st

setKingPosition(st, piece, position) ==
    IF piece.type # "king" THEN st
    ELSE [st EXCEPT !.GameState.kingPositions[piece.color] = position]

\* setLastPawnDoubleMove recording the square the pawn left
setLastPawnDoubleMove_recordsOrigin(st, fromPosition, toPosition, piece) ==
    LET initialRow == IF piece.color = "white" THEN 6 ELSE 1
    IN IF piece.type = "pawn" /\ fromPosition[1] = initialRow /\
          (toPosition[1] - fromPosition[1] = 2 \/ fromPosition[1] - toPosition[1] = 2) /\
          fromPosition[2] = toPosition[2]
       THEN [st EXCEPT
               !.GameState.lastPawnDoubleMove =
                   [color |-> piece.color, positions |-> {fromPosition}],
               !.GameState.enPassantPosition = fromPosition]
       ELSE st

setLastPawnDoubleMove(st, fromPosition, toPosition, piece) ==
    LET row == fromPosition[1]
        col == fromPosition[2]
        toRow == toPosition[1]
        toCol == toPosition[2]
        initialRow == IF piece.color = "white" THEN 6 ELSE 1
    IN IF piece.type # "pawn" THEN st
       ELSE IF row = initialRow /\ (toRow - row = 2 \/ row - toRow = 2) /\ col = toCol
       THEN [st EXCEPT
               !.GameState.lastPawnDoubleMove =
                   [color |-> piece.color, positions |-> {<<toRow, toCol>>}],
               !.GameState.enPassantPosition = <<toRow, toCol>>]
       ELSE st

\* removePawnEnPassant looking for the captured pawn on the wrong side of the
\* destination (toRow + direction)
removePawnEnPassant_wrongRow(st, toPosition) ==
    LET currentPlayer == st.GameState.currentPlayer
        direction == IF currentPlayer = "white" THEN -1 ELSE 1
        lastPawnDoubleMove == st.GameState.lastPawnDoubleMove
        capturedRow == toPosition[1] + direction
        capturedCol == toPosition[2]
    IN IF lastPawnDoubleMove = NullDoubleMove THEN st
       ELSE IF <<capturedRow, capturedCol>> \in lastPawnDoubleMove.positions
       THEN [st EXCEPT
               !.VIRTUAL_BOARD[<<capturedRow, capturedCol>>] = Null,
               !.GameState.lastPawnDoubleMove = NullDoubleMove,
               !.GameState.enPassantPosition = <<>>]
       ELSE st

removePawnEnPassant(st, toPosition) ==
    LET currentPlayer == st.GameState.currentPlayer
        direction == IF currentPlayer = "white" THEN -1 ELSE 1
        lastPawnDoubleMove == st.GameState.lastPawnDoubleMove
        capturedRow == toPosition[1] - direction
        capturedCol == toPosition[2]
    IN IF lastPawnDoubleMove = NullDoubleMove THEN st
       ELSE IF <<capturedRow, capturedCol>> \in lastPawnDoubleMove.positions
       THEN [st EXCEPT
               !.VIRTUAL_BOARD[<<capturedRow, capturedCol>>] = Null,
               !.GameState.lastPawnDoubleMove = NullDoubleMove,
               !.GameState.enPassantPosition = <<>>]
       ELSE st

\* canEnPassant reads the board handleEnPassant finds: the one validateMove started
\* from, isMoveSafe having put everything back
handleEnPassant(st, fromPosition, toPosition) ==
    IF toPosition \in canEnPassant(fromPosition)
    THEN removePawnEnPassant([st EXCEPT !.log.enPassant = TRUE], toPosition)
    ELSE st

executeMove(st, fromPosition, toPosition, piece) ==
    LET opponentColor == Opponent(piece.color)
        s1 == setLastPawnDoubleMove(st, fromPosition, toPosition, piece)
        s2 == updateVirutualBoardPosition(s1, fromPosition, toPosition, piece)
        s3 == setKingPosition(s2, piece, toPosition)
        check == isKingInCheck(s3.GameState.kingPositions, opponentColor)
        s4 == IF check THEN openModal(s3) ELSE s3
        s5 == toggleCurrentPlayer(clearSelectedPiece(s4))
    IN [s5 EXCEPT !.log.ev = "move",
                  !.log.from = fromPosition,
                  !.log.to = toPosition,
                  !.log.color = piece.color,
                  !.log.type = piece.type,
                  !.log.check = check]

\* Line 1102 calls updateVirtualBoardPosition, a name the script never defines
\* (the function is spelt updateVirutualBoardPosition): the call throws a
\* ReferenceError before anything has been written, and the rest of the body
\* (rook move, kingPositions, clearSelectedPiece, toggleCurrentPlayer) never runs.
executeCastle(st, fromPosition, toPosition, color) ==
    [st EXCEPT !.log.ev = "castle",
               !.log.from = fromPosition,
               !.log.to = toPosition,
               !.log.color = color,
               !.log.type = "king"]

\* replacePieceAtPosition building the new piece in the opponent's colour
replacePieceAtPosition_wrongColor(st, position, newPieceType, color) ==
    [st EXCEPT !.VIRTUAL_BOARD[position] =
        [type |-> newPieceType,
         color |-> IF color = "white" THEN "black" ELSE "white",
         positions |-> position]]

replacePieceAtPosition(st, position, newPieceType, color) ==
    [st EXCEPT !.VIRTUAL_BOARD[position] =
        [type |-> newPieceType, color |-> color, positions |-> position]]

promptPawnPromotion(toPosition) == ~(toPosition[1] # 0 /\ toPosition[1] # 7)

\* validateMove moving the piece on the board before it looks at the destination
validateMove_writesFirst(st, fromPosition, toPosition) ==
    LET piece == getPiecePositionOnVirtualBoard(fromPosition)
        written == updateVirutualBoardPosition(st, fromPosition, toPosition, piece)
    IN IF piece = Null THEN [st EXCEPT !.log.ev = "noPiece"]
       ELSE IF ~isValidateMove(fromPosition, toPosition, piece)
       THEN [openModal(written) EXCEPT !.log.ev = "illegal"]
       ELSE executeMove(st, fromPosition, toPosition, piece)

\* validateMove forgetting the en passant state when it rejects a destination
validateMove_forgetsEnPassant(st, fromPosition, toPosition) ==
    LET piece == getPiecePositionOnVirtualBoard(fromPosition)
    IN IF piece = Null THEN [st EXCEPT !.log.ev = "noPiece"]
       ELSE IF ~isValidateMove(fromPosition, toPosition, piece)
       THEN [openModal(st) EXCEPT !.GameState.lastPawnDoubleMove = NullDoubleMove,
                                  !.GameState.enPassantPosition = <<>>,
                                  !.log.ev = "illegal"]
       ELSE executeMove(st, fromPosition, toPosition, piece)

validateMove(st, fromPosition, toPosition) ==
    LET piece == getPiecePositionOnVirtualBoard(fromPosition)
        currentPlayer == st.GameState.currentPlayer
        sim == isMoveSafe(fromPosition, toPosition, currentPlayer)
        afterSim == [st EXCEPT !.VIRTUAL_BOARD = sim.VIRTUAL_BOARD,
                               !.GameState.kingPositions = sim.kingPositions]
        afterEnPassant == handleEnPassant(afterSim, fromPosition, toPosition)
    IN IF piece = Null THEN [st EXCEPT !.log.ev = "noPiece"]
       ELSE IF ~isValidateMove(fromPosition, toPosition, piece)
       THEN [openModal(st) EXCEPT !.log.ev = "illegal"]
       ELSE IF ~sim.safe
       THEN [clearSelectedPiece(openModal(afterSim)) EXCEPT !.log.ev = "unsafe"]
       ELSE IF piece.type = "king" /\
               (toPosition[2] - fromPosition[2] = 2 \/ fromPosition[2] - toPosition[2] = 2)
       THEN IF isKingInInitialPosition(piece.color) /\
               canCastle(fromPosition, toPosition, piece.color)
            THEN executeCastle(afterSim, fromPosition, toPosition, piece.color)
            ELSE [openModal(afterSim) EXCEPT !.log.ev = "invalidCastle"]
       ELSE IF piece.type = "pawn" /\ promptPawnPromotion(toPosition)
       THEN [afterEnPassant EXCEPT !.modalPrompt = <<fromPosition, toPosition>>,
                                   !.log.ev = "prompt",
                                   !.log.from = fromPosition,
                                   !.log.to = toPosition,
                                   !.log.color = piece.color]
       ELSE IF piece.type = "pawn"
       THEN executeMove(afterEnPassant, fromPosition, toPosition, piece)
       ELSE executeMove(afterSim, fromPosition, toPosition, piece)

\* cellClicked selecting whatever piece is clicked, without the test of its colour
cellClicked_anyColour(st, position) ==
    LET clickedPiece == getPiecePositionOnVirtualBoard(position)
        selectedPiece == st.GameState.selectedPiece
    IN IF clickedPiece = Null /\ selectedPiece = Null
       THEN [st EXCEPT !.log.ev = "ignored", !.log.color = "null"]
       ELSE IF clickedPiece # Null
       THEN [st EXCEPT !.GameState.selectedPiece = clickedPiece,
                       !.log.ev = "select"]
       ELSE validateMove(st, selectedPiece.positions, position)

cellClicked(st, position) ==
    LET clickedPiece == getPiecePositionOnVirtualBoard(position)
        selectedPiece == st.GameState.selectedPiece
        currentPlayer == st.GameState.currentPlayer
    IN IF clickedPiece = Null /\ selectedPiece = Null
       THEN [st EXCEPT !.log.ev = "ignored", !.log.color = "null"]
       ELSE IF clickedPiece # Null /\ clickedPiece.color = currentPlayer
       THEN [st EXCEPT !.GameState.selectedPiece = clickedPiece,
                       !.log.ev = "select"]
       ELSE IF selectedPiece # Null
       THEN validateMove(st, selectedPiece.positions, position)
       ELSE [st EXCEPT !.log.ev = "ignored", !.log.color = clickedPiece.color]

\* The closing check reads isKingInCheck(color); were it true, building the message
\* would throw on the undeclared opponentColor, after every write below.
promotePawn(st, pieceKey, fromPosition, toPosition) ==
    LET color == st.GameState.currentPlayer
        moved == executeMove(st, fromPosition, toPosition,
                             [type |-> PIECE_TYPES[pieceKey], color |-> color,
                              positions |-> <<>>])
        replaced == replacePieceAtPosition(moved, toPosition, PIECE_TYPES[pieceKey], color)
    IN IF pieceKey \notin DOMAIN PIECE_TYPES THEN [st EXCEPT !.log.ev = "badKey"]
       ELSE [closeModal(replaced) EXCEPT !.log.ev = "promote"]

\* restartGame without the call of GameState.reset
restartGame_keepsStore(st) ==
    [st EXCEPT !.VIRTUAL_BOARD = addPieces,
               !.log.ev = "restart",
               !.log.color = st.GameState.currentPlayer]

\* The board and the store are rebuilt; the dialog is not part of the board and
\* stays as it is.
restartGame(st) ==
    [st EXCEPT !.VIRTUAL_BOARD = addPieces,
               !.GameState = InitialGameState,
               !.log.ev = "restart",
               !.log.color = st.GameState.currentPlayer]

----------------------------------------------------------------------------
(* The games explored.  Every game starts from the opening position; the    *)
(* players click only the squares of one of the sets below, which keeps the *)
(* set of positions finite and small while reaching the special moves.      *)

\* 1.e4 f6 2.Qh5+ Kf7 3.Qxf7: check ignored, king captured
CheckGame ==
    {<<6, 4>>, <<4, 4>>, <<1, 5>>, <<2, 5>>, <<7, 3>>, <<3, 7>>, <<0, 4>>}

\* 1.e4 a6 2.e5 d5 3.exd6 e.p., and 1.e4 d5 2.e5 Qd7 3.exd6
EnPassantGame ==
    {<<6, 4>>, <<4, 4>>, <<3, 4>>, <<1, 3>>, <<3, 3>>, <<2, 3>>, <<0, 3>>,
     <<1, 0>>, <<2, 0>>}

\* 1.g3 Nh6 2.Bg2 Ng8 3.Nf3 Nh6 4.O-O, with Ke1-f1-e1 and Rh1-g1-h1 on the way
CastleGame ==
    {<<6, 6>>, <<5, 6>>, <<7, 5>>, <<7, 6>>, <<5, 5>>, <<7, 4>>, <<7, 7>>,
     <<0, 6>>, <<2, 7>>}

\* 1.e3 Nh6 2.Be2 Ng4 3.Nh3 Nxe3 4.O-O: castling through the knight's attack on f1
AttackedCastleGame ==
    {<<6, 4>>, <<5, 4>>, <<7, 5>>, <<7, 6>>, <<5, 7>>, <<7, 4>>,
     <<0, 6>>, <<2, 7>>, <<4, 6>>}

\* 1.h4 Nf6 2.h5 Ng8 3.h6 Nf6 4.hxg7 Ng8 5.gxh8 and the promotion choice
PromotionGame ==
    {<<6, 7>>, <<4, 7>>, <<3, 7>>, <<2, 7>>, <<1, 6>>, <<0, 7>>, <<0, 6>>, <<2, 5>>}

\* 1.e4 e5 2.Qh5 Ke7 3.Qxe5 mate
MateGame ==
    {<<6, 4>>, <<4, 4>>, <<1, 4>>, <<3, 4>>, <<7, 3>>, <<3, 7>>, <<0, 4>>}

Games ==
    {CheckGame, EnPassantGame, CastleGame, AttackedCastleGame, PromotionGame,
     MateGame}

\* the dialog offering the king as well
PromotionKeys_withKing == {"QUEEN", "ROOK", "BISHOP", "KNIGHT", "KING"}

\* the dialog offering the pawn as well
PromotionKeys_withPawn == {"QUEEN", "ROOK", "BISHOP", "KNIGHT", "PAWN"}

\* the keys promptPawnPromotion puts into the dialog
PromotionKeys == {"QUEEN", "ROOK", "BISHOP", "KNIGHT"}

----------------------------------------------------------------------------
(* History of the committed moves, kept beside the program's state so that  *)
(* properties about earlier moves can be stated.                            *)

Sides == {"kingside", "queenside"}

\* the corner a colour's rook of that side starts on
Corner(color, side) ==
    <<IF color = "white" THEN 7 ELSE 0, IF side = "kingside" THEN 7 ELSE 0>>

InitialHistory ==
    [mover |-> "none",
     kingMoved |-> [c \in Colors |-> FALSE],
     rookMoved |-> [c \in Colors |-> [sd \in Sides |-> FALSE]],
     rookAtHome |-> [c \in Colors |-> [sd \in Sides |-> TRUE]],
     freshDouble |-> <<>>,
     prompted |-> <<>>]

Committed(log) == log.ev \in {"move", "promote"}

\* the promotion that has been prompted and not yet chosen (promotePawn not
\* called): the pawn's square, its destination and its colour
Prompted(h, log) ==
    IF log.ev = "prompt" THEN <<log.from, log.to, log.color>>
    ELSE IF log.ev \in {"promote", "badKey"} THEN <<>>
    ELSE h.prompted

\* h after the handler that left log
Record(h, log) ==
    IF log.ev = "restart" THEN InitialHistory
    ELSE IF ~Committed(log) THEN [h EXCEPT !.prompted = Prompted(h, log)]
    ELSE [mover |-> log.color,
          prompted |-> Prompted(h, log),
          kingMoved |->
              [c \in Colors |->
                  h.kingMoved[c] \/ (log.ev = "move" /\ log.type = "king" /\ log.color = c)],
          rookMoved |->
              [c \in Colors |-> [sd \in Sides |->
                  h.rookMoved[c][sd] \/
                  (h.rookAtHome[c][sd] /\ log.ev = "move" /\ log.from = Corner(c, sd))]],
          rookAtHome |->
              [c \in Colors |-> [sd \in Sides |->
                  h.rookAtHome[c][sd] /\ log.from # Corner(c, sd) /\ log.to # Corner(c, sd)]],
          freshDouble |->
              IF log.ev = "move" /\ log.type = "pawn" /\
                 (log.to[1] - log.from[1] = 2 \/ log.from[1] - log.to[1] = 2)
              THEN log.to ELSE <<>>]

----------------------------------------------------------------------------
(* Specification *)

Init ==
    /\ VIRTUAL_BOARD = addPieces
    /\ ATTACK_BOARD = initializeAttackBoard
    /\ GameState = InitialGameState
    /\ modalPrompt = <<>>
    /\ inputs \in Games
    /\ last = NoLog
    /\ listeners = <<>>
    /\ clients = InitialClients
    /\ history = InitialHistory

\* the state a handler starts from
Current ==
    [VIRTUAL_BOARD |-> VIRTUAL_BOARD, GameState |-> GameState,
     modalPrompt |-> modalPrompt, log |-> NoLog]

\* the state a handler leaves
Leave(st) ==
    /\ VIRTUAL_BOARD' = st.VIRTUAL_BOARD
    /\ GameState' = st.GameState
    /\ modalPrompt' = st.modalPrompt
    /\ last' = st.log
    /\ history' = Record(history, st.log)
    /\ UNCHANGED <<inputs, listeners, clients>>

\* a click on a board cell
CellClicked ==
    /\ \E position \in inputs :
          Leave(cellClicked(
              [Current EXCEPT
                  !.log.outside = ~isValidBoardPosition(position[1], position[2])],
              position))
    /\ UNCHANGED ATTACK_BOARD

\* a click on one of the piece symbols of the promotion dialog
PromotePawn ==
    /\ modalPrompt # <<>>
    /\ \E pieceKey \in PromotionKeys :
          Leave(promotePawn(Current, pieceKey, modalPrompt[1], modalPrompt[2]))
    /\ UNCHANGED ATTACK_BOARD

\* the Escape key: closeModal
EscapeKey ==
    /\ Leave([closeModal(Current) EXCEPT !.log.ev = "escape"])
    /\ UNCHANGED ATTACK_BOARD

\* a click on the restart button; explored from the states in which no promotion
\* choice is on display (restartGame itself does not look at the dialog)
RestartGame ==
    /\ modalPrompt = <<>>
    /\ Leave(restartGame(Current))
    /\ ATTACK_BOARD' = initializeAttackBoard

Next == CellClicked \/ PromotePawn \/ EscapeKey \/ RestartGame

Spec == Init /\ [][Next]_vars

\* The promotion game with the rook of h1 added: once the pawn has left the h-file
\* white has a second piece to move while the promotion choice is on display.
PendingPromotionGame == PromotionGame \cup {<<7, 7>>}

InitPending ==
    /\ VIRTUAL_BOARD = addPieces
    /\ ATTACK_BOARD = initializeAttackBoard
    /\ GameState = InitialGameState
    /\ modalPrompt = <<>>
    /\ inputs = PendingPromotionGame
    /\ last = NoLog
    /\ listeners = <<>>
    /\ clients = InitialClients
    /\ history = InitialHistory

SpecPending == InitPending /\ [][Next]_vars

\* promotePawn is a global function: besides the four keys of the dialog it can
\* be called with any other string.
AnyKeys == (DOMAIN PIECE_TYPES) \cup {"UNKNOWN"}

InitAnyKey ==
    /\ VIRTUAL_BOARD = addPieces
    /\ ATTACK_BOARD = initializeAttackBoard
    /\ GameState = InitialGameState
    /\ modalPrompt = <<>>
    /\ inputs = PromotionGame
    /\ last = NoLog
    /\ listeners = <<>>
    /\ clients = InitialClients
    /\ history = InitialHistory

\* promotePawn called with any key while the promotion choice is on display
PromotePawnCall ==
    /\ modalPrompt # <<>>
    /\ \E pieceKey \in AnyKeys :
          Leave(promotePawn(Current, pieceKey, modalPrompt[1], modalPrompt[2]))
    /\ UNCHANGED ATTACK_BOARD

NextAnyKey == CellClicked \/ PromotePawnCall \/ EscapeKey \/ RestartGame

SpecAnyKey == InitAnyKey /\ [][NextAnyKey]_vars

\* A queen ending as a game arrives at it: white king c7, white queen b5, black
\* king a8, white to move, both kings long gone from their home squares.  The
\* squares in play are the corner and the queen's.
EndgameBoard ==
    [s \in Squares |->
        CASE s = <<0, 0>> -> [type |-> "king", color |-> "black", positions |-> s]
          [] s = <<1, 2>> -> [type |-> "king", color |-> "white", positions |-> s]
          [] s = <<3, 1>> -> [type |-> "queen", color |-> "white", positions |-> s]
          [] OTHER -> Null]

EndgameSquares ==
    {<<0, 0>>, <<0, 1>>, <<1, 0>>, <<1, 1>>, <<1, 2>>, <<2, 1>>, <<3, 1>>, <<2, 2>>}

InitEndgame ==
    /\ VIRTUAL_BOARD = EndgameBoard
    /\ ATTACK_BOARD = initializeAttackBoard
    /\ GameState =
          [InitialGameState EXCEPT
              !.kingPositions = [white |-> <<1, 2>>, black |-> <<0, 0>>]]
    /\ modalPrompt = <<>>
    /\ inputs = EndgameSquares
    /\ last = NoLog
    /\ listeners = <<>>
    /\ clients = InitialClients
    /\ history =
          [InitialHistory EXCEPT
              !.mover = "black",
              !.kingMoved = [c \in Colors |-> TRUE],
              !.rookAtHome = [c \in Colors |-> [sd \in Sides |-> FALSE]]]

NextEndgame == CellClicked \/ EscapeKey \/ RestartGame

SpecEndgame == InitEndgame /\ [][NextEndgame]_vars

\* The en passant game with two positions outside the board among the clicks:
\* one below the last row, one left of the first column.
OutsidePositions == {<<8, 4>>, <<3, -1>>}

InitOutside ==
    /\ VIRTUAL_BOARD = addPieces
    /\ ATTACK_BOARD = initializeAttackBoard
    /\ GameState = InitialGameState
    /\ modalPrompt = <<>>
    /\ inputs = EnPassantGame \cup OutsidePositions
    /\ last = NoLog
    /\ listeners = <<>>
    /\ clients = InitialClients
    /\ history = InitialHistory

NextOutside == CellClicked \/ EscapeKey \/ RestartGame

SpecOutside == InitOutside /\ [][NextOutside]_vars

\* Positions of rooks, bishops and queens only (the kings and everything else
\* have been taken: nothing in the program protects a king from capture).  A
\* white piece of each sliding type stands on a1 or d4; the squares d1, a4 and
\* g7 are empty or hold a queen, a rook and a bishop of either colour, each on
\* a line of both a1 and d4.
SliderSquares == {<<7, 0>>, <<4, 3>>}

SliderTypes == {PIECE_TYPES.ROOK, PIECE_TYPES.BISHOP, PIECE_TYPES.QUEEN}

BlockerSquares == {<<7, 3>>, <<4, 0>>, <<1, 6>>}

BlockerType(s) ==
    CASE s = <<7, 3>> -> PIECE_TYPES.QUEEN
      [] s = <<4, 0>> -> PIECE_TYPES.ROOK
      [] s = <<1, 6>> -> PIECE_TYPES.BISHOP

SliderBoard(p, t, f) ==
    [s \in Squares |->
        IF s = p THEN [type |-> t, color |-> "white", positions |-> s]
        ELSE IF s \in BlockerSquares /\ f[s] # "none"
        THEN [type |-> BlockerType(s), color |-> f[s], positions |-> s]
        ELSE Null]

\* the white rook alone on a1
LoneRookBoard ==
    SliderBoard(<<7, 0>>, PIECE_TYPES.ROOK, [b \in BlockerSquares |-> "none"])

InitSliders ==
    /\ \E p \in SliderSquares, t \in SliderTypes,
          f \in [BlockerSquares -> Colors \cup {"none"}] :
            VIRTUAL_BOARD = SliderBoard(p, t, f)
    /\ ATTACK_BOARD = initializeAttackBoard
    /\ GameState = InitialGameState
    /\ modalPrompt = <<>>
    /\ inputs = SliderSquares \cup BlockerSquares
    /\ last = NoLog
    /\ listeners = <<>>
    /\ clients = InitialClients
    /\ history = InitialHistory

NextSliders == CellClicked \/ EscapeKey \/ RestartGame

SpecSliders == InitSliders /\ [][NextSliders]_vars

----------------------------------------------------------------------------
(* The Set-based iteration: the second listing of src/unnamed/part_000, whose  *)
(* ATTACK_BOARD holds a Set of colours per square and is filled by             *)
(* updateAttackBoardPosition.  Its state is VIRTUAL_BOARD, ATTACK_BOARD and    *)
(* GAME_STATE (held in GameState, which has the same fields).  The generators   *)
(* for rook, knight, bishop and queen, and the look-ups, have the text of      *)
(* src/script.js and are the operators above; what differs is defined here.    *)
(* The functions that read the board while isMoveSafe has it changed take the  *)
(* board as a parameter.                                                       *)

\* for each direction, the squares walked until one is off the board or the
\* square before it was occupied
getSlidingMovesOn(board, position, directions) ==
    UNION {{Step(position, d, k) : k \in
              {n \in 1..7 :
                  /\ isValidBoardPosition(Step(position, d, n)[1], Step(position, d, n)[2])
                  /\ \A j \in 1..(n - 1) : board[Step(position, d, j)] = Null}} :
           d \in directions}

getAttackingMovesOn(board, position, piece) ==
    LET row == position[1]
        col == position[2]
        direction == IF piece.color = "white" THEN -1 ELSE 1
    IN CASE piece.type = "pawn" ->
              {sq \in {<<row + direction, col - 1>>, <<row + direction, col + 1>>} :
                  isValidBoardPosition(sq[1], sq[2])}
         [] piece.type = "rook" -> getSlidingMovesOn(board, position, RookDirections)
         [] piece.type = "bishop" -> getSlidingMovesOn(board, position, BishopDirections)
         [] piece.type = "queen" ->
              getSlidingMovesOn(board, position, RookDirections \cup BishopDirections)
         [] piece.type = "knight" ->
              {sq \in {Step(position, d, 1) : d \in KnightOffsets} :
                  isValidBoardPosition(sq[1], sq[2])}
         [] piece.type = "king" ->
              {sq \in {Step(position, d, 1) : d \in KingOffsets} :
                  isValidBoardPosition(sq[1], sq[2])}
         [] OTHER -> {}

\* the loops of updateAttackBoardPosition from cell n (row n \div 8, column n % 8)
\* on, each attacked square's Set replaced by the colour of the last attacker
RECURSIVE addAttacks_overwrites(_, _, _)
addAttacks_overwrites(board, attack, n) ==
    IF n = 64 THEN attack
    ELSE LET position == <<n \div 8, n % 8>>
             piece == board[position]
             attacks == getAttackingMovesOn(board, position, piece)
         IN IF piece = Null THEN addAttacks_overwrites(board, attack, n + 1)
            ELSE addAttacks_overwrites(
                     board,
                     [sq \in Squares |->
                         IF sq \in attacks THEN {piece.color} ELSE attack[sq]],
                     n + 1)

\* the loops of updateAttackBoardPosition from cell n on: the colour of the piece
\* of each cell is added to the Set of every square it attacks
RECURSIVE addAttacks(_, _, _)
addAttacks(board, attack, n) ==
    IF n = 64 THEN attack
    ELSE LET position == <<n \div 8, n % 8>>
             piece == board[position]
             attacks == getAttackingMovesOn(board, position, piece)
         IN IF piece = Null THEN addAttacks(board, attack, n + 1)
            ELSE addAttacks(
                     board,
                     [sq \in Squares |->
                         IF sq \in attacks THEN attack[sq] \cup {piece.color}
                         ELSE attack[sq]],
                     n + 1)

\* ATTACK_BOARD after updateAttackBoardPosition() with VIRTUAL_BOARD = board
updateAttackBoardPosition(board) == addAttacks(board, initializeAttackBoard, 0)

isKingInCheckOn(attack, kingPositions, color) ==
    Opponent(color) \in attack[kingPositions[color]]

\* isMoveSafe of the Set-based iteration: its result, the board and the kings'
\* squares it leaves, the ATTACK_BOARD it leaves and the board it simulated
isMoveSafeSetBased(fromPosition, toPosition, player) ==
    LET originalPiece == VIRTUAL_BOARD[fromPosition]
        capturedPiece == VIRTUAL_BOARD[toPosition]
        isKing == originalPiece.type = "king"
        simulated == [[VIRTUAL_BOARD EXCEPT ![fromPosition] = Null]
                         EXCEPT ![toPosition] = originalPiece]
        simulatedKings == IF isKing
                          THEN [GameState.kingPositions EXCEPT ![player] = toPosition]
                          ELSE GameState.kingPositions
        attack == updateAttackBoardPosition(simulated)
        kingIsInCheck == isKingInCheckOn(attack, simulatedKings, player)
    IN [safe |-> ~kingIsInCheck,
        VIRTUAL_BOARD |-> [[simulated EXCEPT ![fromPosition] = originalPiece]
                              EXCEPT ![toPosition] = capturedPiece],
        kingPositions |-> IF isKing
                          THEN [simulatedKings EXCEPT ![player] = fromPosition]
                          ELSE simulatedKings,
        ATTACK_BOARD |-> attack,
        simulated |-> simulated]

\* canEnPassant of the Set-based iteration; it also stores each square it
\* returns in enPassantPosition, the column to the right last
canEnPassantSetBased(fromPosition) ==
    LET pawn == getPiecePositionOnVirtualBoard(fromPosition)
        row == fromPosition[1]
        col == fromPosition[2]
        direction == IF pawn.color = "white" THEN -1 ELSE 1
        enPassantRow == IF pawn.color = "white" THEN 3 ELSE 4
    IN IF pawn = Null \/ pawn.type # "pawn" THEN {}
       ELSE IF row # enPassantRow THEN {}
       ELSE {<<row + direction, adjCol>> : adjCol \in
               {a \in {col - 1, col + 1} :
                   /\ isValidBoardPosition(row, a)
                   /\ LET adjacentPawn == getPiecePositionOnVirtualBoard(<<row, a>>)
                      IN /\ adjacentPawn # Null
                         /\ adjacentPawn.type = "pawn"
                         /\ adjacentPawn.color # pawn.color
                         /\ <<row, a>> \in GameState.lastPawnDoubleMove.positions
                         /\ ~hasPieceAtPosition(<<row + direction, a>>)}}

getPawnMoveSetBased(position) ==
    LET row == position[1]
        col == position[2]
        color == getPiecePositionOnVirtualBoard(position).color
        direction == IF color = "white" THEN -1 ELSE 1
        initialRow == IF color = "white" THEN 6 ELSE 1
        forward ==
            IF ~hasPieceAtPosition(<<row + direction, col>>)
            THEN {<<row + direction, col>>} \cup
                 (IF row = initialRow /\ ~hasPieceAtPosition(<<row + 2 * direction, col>>)
                  THEN {<<row + 2 * direction, col>>} ELSE {})
            ELSE {}
        diagonals ==
            {sq \in {<<row + direction, col - 1>>, <<row + direction, col + 1>>} :
                /\ isValidBoardPosition(sq[1], sq[2])
                /\ LET targetPiece == getPiecePositionOnVirtualBoard(sq)
                   IN targetPiece # Null /\ targetPiece.color # color}
    IN forward \cup diagonals \cup canEnPassantSetBased(position)

\* canCastle of the Set-based iteration: it first calls
\* updateAttackBoardPosition() and reads the map that leaves
canCastleSetBased(fromPosition, toPosition, color) ==
    LET attack == updateAttackBoardPosition(VIRTUAL_BOARD)
        fromCol == fromPosition[2]
        row == IF color = "white" THEN 7 ELSE 0
        isKingside == toPosition[2] > fromCol
        side == IF isKingside THEN "kingside" ELSE "queenside"
        intermediateCols == IF isKingside THEN {fromCol + 1, fromCol + 2}
                            ELSE {fromCol - 3, fromCol - 2, fromCol - 1}
        pathClear == \A col \in intermediateCols : BoardCell(row, col) = Null
        kingPathCols == IF isKingside THEN {fromCol, fromCol + 1, fromCol + 2}
                        ELSE {fromCol, fromCol - 1, fromCol - 2}
        opponentColor == Opponent(color)
        safePath == \A col \in kingPathCols : opponentColor \notin attack[<<row, col>>]
    IN IF ~isKingInInitialPosition(color) THEN FALSE
       ELSE IF ~isRookInInitialPosition(color, side) THEN FALSE
       ELSE IF ~pathClear THEN FALSE
       ELSE IF isKingInCheckOn(attack, GameState.kingPositions, color) THEN FALSE
       ELSE IF ~safePath THEN FALSE
       ELSE TRUE

\* getKingMove of the Set-based iteration pushes the king's own square, not the
\* castling destination, when canCastle approves
getKingMoveSetBased(position) ==
    LET row == position[1]
        piece == getPiecePositionOnVirtualBoard(position)
        steps ==
            {sq \in {Step(position, d, 1) : d \in KingOffsets} :
                /\ isValidBoardPosition(sq[1], sq[2])
                /\ LET targetPiece == getPiecePositionOnVirtualBoard(sq)
                   IN targetPiece = Null \/ targetPiece.color # piece.color}
    IN steps
       \cup (IF canCastleSetBased(position, <<row, 6>>, piece.color)
             THEN {position} ELSE {})
       \cup (IF canCastleSetBased(position, <<row, 2>>, piece.color)
             THEN {position} ELSE {})

getPossibleMovesSetBased(position, piece) ==
    CASE piece.type = "pawn" -> getPawnMoveSetBased(position)
      [] piece.type = "rook" -> getRookMove(position)
      [] piece.type = "knight" -> getKnightMove(position)
      [] piece.type = "bishop" -> getBishopMove(position)
      [] piece.type = "queen" -> getQueenMove(position)
      [] piece.type = "king" -> getKingMoveSetBased(position)
      [] OTHER -> {}

\* what a call of getPossibleMoves writes: for a king, canCastle's
\* updateAttackBoardPosition(); for a pawn, canEnPassant's enPassantPosition
getPossibleMovesWrites(st, position, piece) ==
    LET enPassantMoves == canEnPassantSetBased(position)
        lastPushed == CHOOSE m \in enPassantMoves :
                          \A o \in enPassantMoves : o[2] <= m[2]
    IN IF piece.type = "king"
       THEN [st EXCEPT !.ATTACK_BOARD = updateAttackBoardPosition(VIRTUAL_BOARD),
                       !.log.updatedOn = VIRTUAL_BOARD]
       ELSE IF piece.type = "pawn" /\ enPassantMoves # {}
       THEN [st EXCEPT !.GameState.enPassantPosition = lastPushed]
       ELSE st

isValidateMoveSetBased(fromPosition, toPosition, piece) ==
    toPosition \in getPossibleMovesSetBased(fromPosition, piece)

\* updateVirutualBoardPosition of the Set-based iteration also moves the king's
\* recorded square
updateVirutualBoardPositionSetBased(st, fromPosition, toPosition, piece) ==
    [setKingPosition(st, piece, toPosition) EXCEPT
        !.VIRTUAL_BOARD =
            [[@ EXCEPT ![fromPosition] = Null]
                EXCEPT ![toPosition] = [piece EXCEPT !.positions = toPosition]]]

setLastPawnDoubleMoveSetBased(st, fromPosition, toPosition, piece) ==
    LET initialRow == IF piece.color = "white" THEN 6 ELSE 1
    IN IF piece.type = "pawn" /\ fromPosition[1] = initialRow /\
          (toPosition[1] - fromPosition[1] = 2 \/ fromPosition[1] - toPosition[1] = 2) /\
          fromPosition[2] = toPosition[2]
       THEN [st EXCEPT !.GameState.lastPawnDoubleMove =
                           [color |-> piece.color, positions |-> {toPosition}]]
       ELSE st

\* executeMove of the Set-based iteration; captureOpponentPiecesIfExists and
\* removePawnEnPassant only remove images from the page
executeMoveSetBased(st, fromPosition, toPosition, piece) ==
    LET s1 == setLastPawnDoubleMoveSetBased(st, fromPosition, toPosition, piece)
        s2 == updateVirutualBoardPositionSetBased(s1, fromPosition, toPosition, piece)
    IN toggleCurrentPlayer(clearSelectedPiece(s2))

\* executeCastle of the Set-based iteration.  With no piece on the rook's corner
\* the second updateVirutualBoardPosition reads piece.type of null and throws:
\* the king has been moved, nothing after it runs.
executeCastleSetBased(st, fromPosition, toPosition, color) ==
    LET row == fromPosition[1]
        isKingside == toPosition[2] = 6
        rookColFrom == IF isKingside THEN 7 ELSE 0
        rookColTo == IF isKingside THEN 5 ELSE 3
        kingPiece == getPiecePositionOnVirtualBoard(fromPosition)
        rookPiece == VIRTUAL_BOARD[<<row, rookColFrom>>]
        s1 == updateVirutualBoardPositionSetBased(st, fromPosition, toPosition, kingPiece)
        s2 == updateVirutualBoardPositionSetBased(s1, <<row, rookColFrom>>,
                                                  <<row, rookColTo>>, rookPiece)
        s3 == [s2 EXCEPT !.GameState.kingPositions[color] = <<row, toPosition[2]>>]
    IN IF rookPiece = Null
       THEN [s1 EXCEPT !.log.ev = "castleThrows", !.log.color = color]
       ELSE [toggleCurrentPlayer(clearSelectedPiece(s3)) EXCEPT
                !.log.ev = "castled", !.log.color = color]

movePieceInVirtualBoard(st, fromPosition, toPosition) ==
    LET piece == getPiecePositionOnVirtualBoard(fromPosition)
        currentPlayer == st.GameState.currentPlayer
        validated == getPossibleMovesWrites(st, fromPosition, piece)
        sim == isMoveSafeSetBased(fromPosition, toPosition, currentPlayer)
        afterSim == [validated EXCEPT
                        !.VIRTUAL_BOARD = sim.VIRTUAL_BOARD,
                        !.GameState.kingPositions = sim.kingPositions,
                        !.ATTACK_BOARD = sim.ATTACK_BOARD,
                        !.log.attackBefore = validated.ATTACK_BOARD,
                        !.log.updatedOn = sim.simulated]
        moved == executeMoveSetBased(afterSim, fromPosition, toPosition, piece)
    IN IF piece = Null THEN [st EXCEPT !.log.ev = "noPiece"]
       ELSE IF ~isValidateMoveSetBased(fromPosition, toPosition, piece)
       THEN [validated EXCEPT !.log.ev = "illegal"]
       ELSE IF ~sim.safe
       THEN [clearSelectedPiece(afterSim) EXCEPT !.log.ev = "unsafe"]
       ELSE [moved EXCEPT
                !.log.ev = "move",
                !.log.from = fromPosition,
                !.log.to = toPosition,
                !.log.color = piece.color,
                !.log.type = piece.type,
                !.log.check = isKingInCheckOn(moved.ATTACK_BOARD,
                                              moved.GameState.kingPositions,
                                              Opponent(piece.color))]

cellClickedSetBased(st, position) ==
    LET clickedPiece == getPiecePositionOnVirtualBoard(position)
        selectedPiece == st.GameState.selectedPiece
        fromPosition == selectedPiece.positions
    IN IF clickedPiece = Null /\ selectedPiece = Null
       THEN [st EXCEPT !.log.ev = "ignored"]
       ELSE IF clickedPiece # Null /\ clickedPiece.color = st.GameState.currentPlayer
       THEN [getPossibleMovesWrites(st, position, clickedPiece) EXCEPT
                !.GameState.selectedPiece = clickedPiece,
                !.log.ev = "select"]
       ELSE IF selectedPiece = Null
       THEN [st EXCEPT !.log.ev = "ignored", !.log.color = clickedPiece.color]
       ELSE IF selectedPiece.type = "king" /\
               (position[2] - fromPosition[2] = 2 \/ fromPosition[2] - position[2] = 2)
       THEN executeCastleSetBased(st, fromPosition, position, selectedPiece.color)
       ELSE movePieceInVirtualBoard(st, fromPosition, position)

\* 1.e4 f6 2.Qh5+, check to the king of e8, whose step to f7 stays in check
SetBasedGames == {CheckGame}

InitSetBased ==
    /\ VIRTUAL_BOARD = addPieces
    /\ ATTACK_BOARD = initializeAttackBoard
    /\ GameState = InitialGameState
    /\ modalPrompt = <<>>
    /\ inputs \in SetBasedGames
    /\ last = NoLog
    /\ listeners = <<>>
    /\ clients = InitialClients
    /\ history = InitialHistory

CellClickedSetBased ==
    \E position \in inputs :
        LET st == cellClickedSetBased(
                      [VIRTUAL_BOARD |-> VIRTUAL_BOARD, ATTACK_BOARD |-> ATTACK_BOARD,
                       GameState |-> GameState, modalPrompt |-> modalPrompt,
                       log |-> NoLog],
                      position)
        IN /\ Leave(st)
           /\ ATTACK_BOARD' = st.ATTACK_BOARD

NextSetBased == CellClickedSetBased \/ EscapeKey

SpecSetBased == InitSetBased /\ [][NextSetBased]_vars

----------------------------------------------------------------------------
(* The GameState store on its own: subscribe, the unsubscribe functions it  *)
(* returns, set and reset, called by a page with up to three callbacks.      *)

\* listeners after splice(indexOf(fn), 1), done only if fn is found
unsubscribe(list, fn) ==
    IF \A i \in 1..Len(list) : list[i] # fn THEN list
    ELSE LET index == CHOOSE i \in 1..Len(list) :
                          list[i] = fn /\ \A j \in 1..(i - 1) : list[j] # fn
         IN SubSeq(list, 1, index - 1) \o SubSeq(list, index + 1, Len(list))

\* listeners.forEach((fn) => fn(state)) from index k on: forEach fixes the number
\* of indices to visit when it starts and skips an index the array no longer has;
\* a callback that unsubscribes itself splices the array during the visit
RECURSIVE forEachListener(_, _, _, _, _)
forEachListener(list, cl, state, k, len) ==
    IF k > len THEN [listeners |-> list, clients |-> cl]
    ELSE IF k > Len(list) THEN forEachListener(list, cl, state, k + 1, len)
    ELSE LET fn == list[k]
             called == [cl EXCEPT !.calls[fn] = @ + 1, !.received[fn] = state]
         IN forEachListener(
                IF fn \in cl.unsubscribesItself THEN unsubscribe(list, fn) ELSE list,
                called, state, k + 1, len)

\* the notification that ends set and reset
notify(state) ==
    forEachListener(listeners,
                    [clients EXCEPT !.calls = [fn \in ListenerIds |-> 0]],
                    state, 1, Len(listeners))

\* the updates the page passes to set
StoreUpdates ==
    {[currentPlayer |-> c] : c \in Colors} \cup {[check |-> b] : b \in BOOLEAN}

\* state = { ...state, ...updates }
Merge(state, updates) ==
    [key \in DOMAIN state |->
        IF key \in DOMAIN updates THEN updates[key] ELSE state[key]]

InitStore ==
    /\ VIRTUAL_BOARD = addPieces
    /\ ATTACK_BOARD = initializeAttackBoard
    /\ GameState = InitialGameState
    /\ modalPrompt = <<>>
    /\ inputs = {}
    /\ last = NoLog
    /\ listeners = <<>>
    /\ clients = InitialClients
    /\ history = InitialHistory

StoreFrame == UNCHANGED <<VIRTUAL_BOARD, ATTACK_BOARD, modalPrompt, inputs, history>>

\* subscribe(fn) for a callback that is not in the array
StoreSubscribe ==
    /\ \E fn \in ListenerIds, itself \in BOOLEAN :
          /\ \A i \in 1..Len(listeners) : listeners[i] # fn
          /\ listeners' = Append(listeners, fn)
          /\ clients' = [clients EXCEPT
                            !.unsubscribesItself =
                                IF itself THEN @ \cup {fn} ELSE @ \ {fn}]
    /\ last' = [NoLog EXCEPT !.ev = "subscribe"]
    /\ UNCHANGED GameState
    /\ StoreFrame

\* the page calls the unsubscribe function of a subscribed callback
StoreUnsubscribe ==
    /\ \E i \in 1..Len(listeners) : listeners' = unsubscribe(listeners, listeners[i])
    /\ last' = [NoLog EXCEPT !.ev = "unsubscribe"]
    /\ UNCHANGED <<GameState, clients>>
    /\ StoreFrame

StoreSet ==
    /\ \E updates \in StoreUpdates :
          /\ GameState' = Merge(GameState, updates)
          /\ listeners' = notify(Merge(GameState, updates)).listeners
          /\ clients' = notify(Merge(GameState, updates)).clients
    /\ last' = [NoLog EXCEPT !.ev = "set"]
    /\ StoreFrame

StoreReset ==
    /\ GameState' = InitialGameState
    /\ listeners' = notify(InitialGameState).listeners
    /\ clients' = notify(InitialGameState).clients
    /\ last' = [NoLog EXCEPT !.ev = "reset"]
    /\ StoreFrame

NextStore == StoreSubscribe \/ StoreUnsubscribe \/ StoreSet \/ StoreReset

SpecStore == InitStore /\ [][NextStore]_vars

----------------------------------------------------------------------------
(* Properties *)

\* sq is attacked by a piece of colour byColor on the current board
Attacked(sq, byColor) ==
    \E s \in Squares :
        /\ VIRTUAL_BOARD[s] # Null
        /\ VIRTUAL_BOARD[s].color = byColor
        /\ sq \in getAttackingMoves(s, VIRTUAL_BOARD[s])

\* the squares holding a king of that colour
KingSquares(color) ==
    {s \in Squares : VIRTUAL_BOARD[s].type = "king" /\ VIRTUAL_BOARD[s].color = color}

\* the king's square, the square it passes over and the square it lands on
CastlePath(kingSquare, toCol) ==
    IF toCol > kingSquare[2]
    THEN {<<kingSquare[1], kingSquare[2] + k>> : k \in 0..2}
    ELSE {<<kingSquare[1], kingSquare[2] - k>> : k \in 0..2}

\* C1: right after a committed move the mover's own king is not on a square
\* attacked by an opponent piece.
C1_MoverKingNotAttacked ==
    Committed(last) =>
        \A k \in KingSquares(last.color) : ~Attacked(k, Opponent(last.color))

\* C2: each colour has exactly one king on the board in every reachable state.
C2_ExactlyOneKingEach ==
    \A c \in Colors : Cardinality(KingSquares(c)) = 1

\* C3: the check executeMove evaluates for the opponent is true exactly when the
\* opponent king's square is attacked by a piece of the mover's colour.
C3_CheckDetected ==
    Committed(last) =>
        (last.check <=>
            Attacked(GameState.kingPositions[Opponent(last.color)], last.color))

\* C4: a committed move flips currentPlayer, is made by the player to move and
\* never by the colour that made the previous committed move (white first);
\* every other handler leaves currentPlayer unchanged, but for restartGame, which
\* starts a new game with white to move.
C4_TurnFlipsOnCommitOnly ==
    [][IF last'.ev = "restart"
       THEN GameState'.currentPlayer = "white"
       ELSE IF Committed(last')
       THEN /\ GameState'.currentPlayer = Opponent(GameState.currentPlayer)
            /\ last'.color = GameState.currentPlayer
            /\ history.mover # last'.color
            /\ history.mover = "none" => last'.color = "white"
       ELSE GameState'.currentPlayer = GameState.currentPlayer]_vars

\* a promotion by white has been committed and it is black's turn
C4_Witness ==
    /\ last.ev = "promote"
    /\ history.mover = "white"
    /\ GameState.currentPlayer = "black"

\* C5: canEnPassant offers the capture of a pawn only while that pawn's two-square
\* advance is the latest committed move.
C5_EnPassantOnePly ==
    \A s \in Squares : \A d \in canEnPassant(s) :
        history.freshDouble = <<s[1], d[2]>>

\* C6: after a committed en passant capture the captured pawn's square (origin
\* row, destination column) is empty, the capturing pawn is on the destination
\* and its origin is empty.
C6_EnPassantRemovesPawn ==
    (last.ev = "move" /\ last.enPassant) =>
        /\ VIRTUAL_BOARD[<<last.from[1], last.to[2]>>] = Null
        /\ VIRTUAL_BOARD[last.to].type = "pawn"
        /\ VIRTUAL_BOARD[last.to].color = last.color
        /\ VIRTUAL_BOARD[last.to].positions = last.to
        /\ VIRTUAL_BOARD[last.from] = Null

\* an en passant capture has just been committed
C6_Witness ==
    /\ last.ev = "move"
    /\ last.enPassant
    /\ last.type = "pawn"
    /\ last.from[2] # last.to[2]

\* C7: canCastle is false for a colour whose king has been moved by a committed
\* move, also when the king is back on its home square.
C7_NoCastleAfterKingMoved ==
    \A c \in Colors : \A k \in KingSquares(c) : \A toCol \in {2, 6} :
        history.kingMoved[c] => ~canCastle(k, <<k[1], toCol>>, c)

\* C8: canCastle is false for a side whose original rook has moved.
C8_NoCastleAfterRookMoved ==
    \A c \in Colors : \A k \in KingSquares(c) : \A sd \in Sides :
        history.rookMoved[c][sd] =>
            ~canCastle(k, <<k[1], IF sd = "kingside" THEN 6 ELSE 2>>, c)

\* C9: canCastle is false when the king's square, the square it passes over or
\* the square it lands on is attacked by an opponent piece.
C9_NoCastleThroughCheck ==
    \A c \in Colors : \A k \in KingSquares(c) : \A toCol \in {2, 6} :
        (\E sq \in CastlePath(k, toCol) : Attacked(sq, Opponent(c)))
            => ~canCastle(k, <<k[1], toCol>>, c)

\* C10: once validateMove has approved a castle and entered executeCastle, the
\* king stands on the clicked square (file g or c), the rook on file f or d,
\* both origin squares are empty, kingPositions names the king's new square
\* and the turn has passed to the opponent.
C10_CastleCommitted ==
    last.ev = "castle" =>
        LET row == last.from[1]
            kingside == last.to[2] = 6
        IN /\ VIRTUAL_BOARD[last.to].type = "king"
           /\ VIRTUAL_BOARD[last.to].color = last.color
           /\ VIRTUAL_BOARD[<<row, IF kingside THEN 5 ELSE 3>>].type = "rook"
           /\ VIRTUAL_BOARD[last.from] = Null
           /\ VIRTUAL_BOARD[<<row, IF kingside THEN 7 ELSE 0>>] = Null
           /\ GameState.kingPositions[last.color] = last.to
           /\ GameState.currentPlayer = Opponent(last.color)

\* C11: while a promotion has been prompted and promotePawn has not been called,
\* no handler changes the board or the player to move.
C11_NoMoveWhilePromotionPending ==
    [][(history.prompted # <<>> /\ last'.ev \notin {"promote", "badKey", "restart"})
        => /\ VIRTUAL_BOARD' = VIRTUAL_BOARD
           /\ GameState'.currentPlayer = GameState.currentPlayer]_vars

C13_BadPromotionKeyRejected ==
    [][(\/ last'.ev = "badKey"
        \/ (last'.ev = "promote" /\ last'.type \in {"king", "pawn"}))
        => /\ VIRTUAL_BOARD' = VIRTUAL_BOARD
           /\ GameState' = GameState]_vars

\* C14: a handler that ends in one of validateMove's rejections (destination not
\* among the possible moves, move unsafe, castle invalid) leaves the board,
\* kingPositions, currentPlayer, lastPawnDoubleMove and enPassantPosition as
\* they were.
C14_RejectionKeepsState ==
    [][last'.ev \in {"illegal", "unsafe", "invalidCastle"}
        => /\ VIRTUAL_BOARD' = VIRTUAL_BOARD
           /\ GameState'.kingPositions = GameState.kingPositions
           /\ GameState'.currentPlayer = GameState.currentPlayer
           /\ GameState'.lastPawnDoubleMove = GameState.lastPawnDoubleMove
           /\ GameState'.enPassantPosition = GameState.enPassantPosition]_vars

\* black, with a pawn's double advance on record, has just had an attempt rejected
C14_Witness ==
    /\ last.ev = "illegal"
    /\ GameState.currentPlayer = "black"
    /\ GameState.lastPawnDoubleMove # NullDoubleMove
    /\ GameState.enPassantPosition # <<>>
    /\ GameState.selectedPiece.color = "black"

\* C15: after an attempt rejected as illegal or unsafe no piece is selected.
C15_RejectionClearsSelection ==
    last.ev \in {"illegal", "unsafe"} => GameState.selectedPiece = Null

\* C16: with no piece selected, a click on a cell either is ignored (the cell is
\* empty or holds an opponent piece) and changes nothing, or selects a piece of
\* the player to move standing on the board, changing only selectedPiece.
C16_SelectionFrame ==
    [][(/\ GameState.selectedPiece = Null
        /\ last'.ev \notin {"escape", "restart", "promote", "badKey"})
        => \/ /\ last'.ev = "ignored"
              /\ last'.color \in {"null", Opponent(GameState.currentPlayer)}
              /\ UNCHANGED <<VIRTUAL_BOARD, ATTACK_BOARD, GameState, modalPrompt>>
           \/ /\ last'.ev = "select"
              /\ GameState'.selectedPiece # Null
              /\ GameState'.selectedPiece.color = GameState.currentPlayer
              /\ VIRTUAL_BOARD[GameState'.selectedPiece.positions] =
                     GameState'.selectedPiece
              /\ GameState' =
                     [GameState EXCEPT !.selectedPiece = GameState'.selectedPiece]
              /\ UNCHANGED <<VIRTUAL_BOARD, ATTACK_BOARD, modalPrompt>>]_vars

\* in the middle of a game, with nothing selected, a click on an opponent piece
\* has been ignored
C16_Witness ==
    /\ last.ev = "ignored"
    /\ last.color = Opponent(GameState.currentPlayer)
    /\ GameState.selectedPiece = Null
    /\ history.mover = "white"
    /\ GameState.currentPlayer = "black"

\* C17: isMoveSafe called with an occupied origin, any destination and either
\* colour leaves VIRTUAL_BOARD, ATTACK_BOARD and kingPositions equal to what
\* they were before the call.
C17_IsMoveSafeRestores ==
    \A fromPosition \in inputs : \A toPosition \in inputs : \A color \in Colors :
        VIRTUAL_BOARD[fromPosition] # Null =>
            LET after == isMoveSafe(fromPosition, toPosition, color)
            IN /\ after.VIRTUAL_BOARD = VIRTUAL_BOARD
               /\ after.ATTACK_BOARD = ATTACK_BOARD
               /\ after.kingPositions = GameState.kingPositions

\* a king that has left its home square can be tried on a square an opponent
\* piece stands on: the simulation moves the king's position and overwrites a piece
C17_Witness ==
    \E fromPosition \in inputs : \E toPosition \in inputs :
        LET piece == VIRTUAL_BOARD[fromPosition]
        IN /\ piece.type = "king"
           /\ GameState.kingPositions[piece.color] = fromPosition
           /\ fromPosition # InitialGameState.kingPositions[piece.color]
           /\ VIRTUAL_BOARD[toPosition] # Null
           /\ VIRTUAL_BOARD[toPosition].color = Opponent(piece.color)
           /\ isMoveSafe(fromPosition, toPosition, piece.color).safe

\* the piece types of a back rank, from file a to file h
BackRank ==
    <<"rook", "knight", "bishop", "queen", "king", "bishop", "knight", "rook">>

\* the piece the standard opening position has on a square
OpeningPiece(s) ==
    CASE s[1] = 0 -> [type |-> BackRank[s[2] + 1], color |-> "black", positions |-> s]
      [] s[1] = 1 -> [type |-> "pawn", color |-> "black", positions |-> s]
      [] s[1] = 6 -> [type |-> "pawn", color |-> "white", positions |-> s]
      [] s[1] = 7 -> [type |-> BackRank[s[2] + 1], color |-> "white", positions |-> s]
      [] OTHER -> Null

\* C18: right after restartGame the board is the standard opening position,
\* ATTACK_BOARD is empty and GameState has its initial value: white to move,
\* nothing selected, kings on (7,4) and (0,4), no double advance on record, no
\* en passant position, no promotion pending.
C18_RestartRestoresOpening ==
    last.ev = "restart" =>
        /\ \A s \in Squares : VIRTUAL_BOARD[s] = OpeningPiece(s)
        /\ \A s \in Squares : ATTACK_BOARD[s] = {}
        /\ GameState.currentPlayer = "white"
        /\ GameState.selectedPiece = Null
        /\ GameState.check = FALSE
        /\ GameState.checkmate = FALSE
        /\ GameState.kingPositions = [white |-> <<7, 4>>, black |-> <<0, 4>>]
        /\ GameState.lastPawnDoubleMove = NullDoubleMove
        /\ GameState.enPassantPosition = <<>>
        /\ GameState.promotionPending = Null

\* the game has been restarted while it was black's turn
C18_Witness ==
    /\ last.ev = "restart"
    /\ last.color = "black"
    /\ VIRTUAL_BOARD[<<6, 4>>].type = "pawn"
    /\ GameState.currentPlayer = "white"

\* The rules of chess on a board b given as a value, for the positions a move
\* would lead to.
SlideOn(b, p, d) ==
    {Step(p, d, k) : k \in {n \in 1..7 :
        /\ Step(p, d, n) \in Squares
        /\ \A j \in 1..(n - 1) : b[Step(p, d, j)] = Null}}

\* the squares the piece standing on s attacks on b
AttackSetOn(b, s) ==
    LET piece == b[s]
        dir == IF piece.color = "white" THEN -1 ELSE 1
    IN CASE piece.type = "pawn" ->
              {<<s[1] + dir, s[2] - 1>>, <<s[1] + dir, s[2] + 1>>} \cap Squares
         [] piece.type = "knight" -> {Step(s, d, 1) : d \in KnightOffsets} \cap Squares
         [] piece.type = "king" -> {Step(s, d, 1) : d \in KingOffsets} \cap Squares
         [] piece.type = "rook" -> UNION {SlideOn(b, s, d) : d \in RookDirections}
         [] piece.type = "bishop" -> UNION {SlideOn(b, s, d) : d \in BishopDirections}
         [] piece.type = "queen" -> UNION {SlideOn(b, s, d) : d \in KingOffsets}
         [] OTHER -> {}

AttackedOn(b, sq, byColor) ==
    \E s \in Squares : b[s] # Null /\ b[s].color = byColor /\ sq \in AttackSetOn(b, s)

\* the board after the piece of fromPosition has gone to toPosition (an en passant
\* capture takes the pawn beside the origin)
BoardAfter(fromPosition, toPosition) ==
    LET piece == VIRTUAL_BOARD[fromPosition]
        moved == [VIRTUAL_BOARD EXCEPT ![fromPosition] = Null, ![toPosition] = piece]
    IN IF piece.type = "pawn" /\ toPosition \in canEnPassant(fromPosition)
       THEN [moved EXCEPT ![<<fromPosition[1], toPosition[2]>>] = Null]
       ELSE moved

\* color's king is attacked
InCheck(color) == \E k \in KingSquares(color) : Attacked(k, Opponent(color))

\* color has a piece with a destination among its possible moves after which
\* color's king is not attacked
HasLegalMove(color) ==
    \E fromPosition \in Squares :
        /\ VIRTUAL_BOARD[fromPosition] # Null
        /\ VIRTUAL_BOARD[fromPosition].color = color
        /\ \E toPosition \in
                  getPossibleMoves(fromPosition, VIRTUAL_BOARD[fromPosition]) :
              LET b == BoardAfter(fromPosition, toPosition)
              IN \A k \in Squares :
                    (b[k].type = "king" /\ b[k].color = color)
                        => ~AttackedOn(b, k, Opponent(color))

\* C19: isCheckmate(color) is true exactly when color's king is attacked and no
\* piece of that colour has a possible move that leaves the king unattacked.
C19_CheckmateDetected ==
    \A color \in Colors :
        isCheckmate(color) <=> (InCheck(color) /\ ~HasLegalMove(color))

\* C20: isStalemate(color) is true exactly when color's king is not attacked and
\* no piece of that colour has a possible move that leaves the king unattacked.
C20_StalemateDetected ==
    \A color \in Colors :
        isStalemate(color) <=> (~InCheck(color) /\ ~HasLegalMove(color))

\* C21: with the promotion choices of the dialog, each colour has at most one
\* king on the board in every reachable state.
C21_AtMostOneKingEach ==
    \A c \in Colors : Cardinality(KingSquares(c)) <= 1

\* a pawn has been promoted and each colour still has its one king
C21_Witness ==
    /\ last.ev = "promote"
    /\ last.type \in {"queen", "rook", "bishop", "knight"}
    /\ VIRTUAL_BOARD[last.to].type = last.type
    /\ \A c \in Colors : Cardinality(KingSquares(c)) = 1

\* C22: every piece stored on a square of VIRTUAL_BOARD has that square as its
\* cached positions.
C22_CachedSquareInSync ==
    \A s \in Squares : VIRTUAL_BOARD[s] # Null => VIRTUAL_BOARD[s].positions = s

\* a knight has just been moved and stands on its destination with the
\* destination as its cached square
C22_Witness ==
    /\ last.ev = "move"
    /\ last.type = "knight"
    /\ last.from # last.to
    /\ VIRTUAL_BOARD[last.to].type = "knight"
    /\ VIRTUAL_BOARD[last.to].positions = last.to
    /\ VIRTUAL_BOARD[last.from] = Null

\* C23: right after a committed two-square advance of a pawn from its starting
\* row, lastPawnDoubleMove holds the mover's colour and the landing square,
\* enPassantPosition is the landing square and the opponent is to move.
C23_DoubleAdvanceRecorded ==
    (/\ last.ev = "move"
     /\ last.type = "pawn"
     /\ last.from[1] = (IF last.color = "white" THEN 6 ELSE 1)
     /\ last.to = <<IF last.color = "white" THEN 4 ELSE 3, last.from[2]>>)
    => /\ GameState.lastPawnDoubleMove =
              [color |-> last.color, positions |-> {last.to}]
       /\ GameState.enPassantPosition = last.to
       /\ GameState.currentPlayer = Opponent(last.color)

\* from the opening position white has played (6,4) -> (4,4)
C23_Witness ==
    /\ last.ev = "move"
    /\ last.type = "pawn"
    /\ last.from = <<6, 4>>
    /\ last.to = <<4, 4>>
    /\ GameState.lastPawnDoubleMove = [color |-> "white", positions |-> {<<4, 4>>}]
    /\ GameState.enPassantPosition = <<4, 4>>
    /\ GameState.currentPlayer = "black"
    /\ \A s \in Squares \ {<<6, 4>>, <<4, 4>>} : VIRTUAL_BOARD[s] = addPieces[s]

\* C24: a click on a position outside the board takes one of the two branches
\* of cellClicked that run to their end without raising (nothing selected:
\* return; a piece selected: validateMove rejects the destination) and leaves
\* the board, the kings' squares, the player to move and the en passant state
\* as they were.
C24_OutsideClickChangesNothing ==
    [][last'.outside =>
          /\ last'.ev \in {"ignored", "illegal"}
          /\ VIRTUAL_BOARD' = VIRTUAL_BOARD
          /\ GameState'.kingPositions = GameState.kingPositions
          /\ GameState'.currentPlayer = GameState.currentPlayer
          /\ GameState'.lastPawnDoubleMove = GameState.lastPawnDoubleMove
          /\ GameState'.enPassantPosition = GameState.enPassantPosition]_vars

\* a click outside the board was rejected with a piece selected, in the middle
\* of a game in which a double advance is on record
C24_Witness ==
    /\ last.outside
    /\ last.ev = "illegal"
    /\ GameState.selectedPiece # Null
    /\ GameState.enPassantPosition # <<>>
    /\ VIRTUAL_BOARD # addPieces

\* a click outside the board with nothing selected
C24_WitnessNoSelection ==
    /\ last.outside
    /\ last.ev = "ignored"
    /\ GameState.selectedPiece = Null
    /\ VIRTUAL_BOARD # addPieces

\* the squares of the ray from s in direction d a piece of s may go to: the empty
\* squares before the first occupied one, and that one if the other colour holds it
RayMoves(s, d) ==
    LET reach == {k \in 1..7 : Step(s, d, k) \in Squares}
        occupied == {k \in reach : VIRTUAL_BOARD[Step(s, d, k)] # Null}
        first == IF occupied = {} THEN 8
                 ELSE CHOOSE k \in occupied : \A j \in occupied : k <= j
    IN {Step(s, d, k) : k \in {n \in reach : n < first}}
       \cup (IF first < 8 /\ VIRTUAL_BOARD[Step(s, d, first)].color # VIRTUAL_BOARD[s].color
             THEN {Step(s, d, first)} ELSE {})

\* C25: for every rook, bishop and queen on the board, getRookMove, getBishopMove
\* and getQueenMove return exactly the squares of the piece's rays up to the first
\* occupied square, that square included iff it holds a piece of the other colour;
\* a rook alone on a1 gets the 14 other squares of row 7 and column 0.
C25_SlidingMovesAreRays ==
    /\ \A s \in Squares :
          LET piece == VIRTUAL_BOARD[s]
          IN /\ piece.type = "rook" =>
                   getRookMove(s) = UNION {RayMoves(s, d) : d \in RookDirections}
             /\ piece.type = "bishop" =>
                   getBishopMove(s) = UNION {RayMoves(s, d) : d \in BishopDirections}
             /\ piece.type = "queen" =>
                   getQueenMove(s) =
                       UNION {RayMoves(s, d) : d \in RookDirections \cup BishopDirections}
    /\ VIRTUAL_BOARD = LoneRookBoard =>
          getRookMove(<<7, 0>>) =
              {sq \in Squares : (sq[1] = 7 \/ sq[2] = 0) /\ sq # <<7, 0>>}

\* the rook alone on a1 has been selected and has its 14 squares
C25_Witness ==
    /\ VIRTUAL_BOARD = LoneRookBoard
    /\ last.ev = "select"
    /\ GameState.selectedPiece = VIRTUAL_BOARD[<<7, 0>>]
    /\ Cardinality(getRookMove(<<7, 0>>)) = 14

\* a rook with a piece of its own colour on one line and one of the other colour
\* on another: it stops short of the first and may take the second
C25_WitnessBlocked ==
    \E s \in Squares :
        /\ VIRTUAL_BOARD[s].type = "rook"
        /\ \E own \in Squares \ getRookMove(s) :
              /\ own # s
              /\ VIRTUAL_BOARD[own].color = VIRTUAL_BOARD[s].color
              /\ own \in UNION {SlideOn(VIRTUAL_BOARD, s, d) : d \in RookDirections}
        /\ \E other \in getRookMove(s) :
              VIRTUAL_BOARD[other].color = Opponent(VIRTUAL_BOARD[s].color)

\* the pawn moves of the rules, en passant aside, for the pawn standing on s
PawnRuleMoves(s) ==
    LET color == VIRTUAL_BOARD[s].color
        dir == IF color = "white" THEN -1 ELSE 1
        start == IF color = "white" THEN 6 ELSE 1
        one == <<s[1] + dir, s[2]>>
        two == <<s[1] + 2 * dir, s[2]>>
    IN {sq \in Squares :
          \/ sq = one /\ VIRTUAL_BOARD[one] = Null
          \/ /\ sq = two
             /\ s[1] = start
             /\ VIRTUAL_BOARD[one] = Null
             /\ VIRTUAL_BOARD[two] = Null
          \/ /\ sq[1] = s[1] + dir
             /\ sq[2] \in {s[2] - 1, s[2] + 1}
             /\ VIRTUAL_BOARD[sq] # Null
             /\ VIRTUAL_BOARD[sq].color = Opponent(color)}

\* C26: for every pawn that is not on its last rank, what getPawnMove returns
\* beside the en passant destinations is exactly: the square in front iff empty,
\* the second square in front iff the pawn is on its starting row and both are
\* empty, and each forward diagonal on the board iff the other colour holds it.
C26_PawnMovesFollowRules ==
    \A s \in Squares :
        (/\ VIRTUAL_BOARD[s].type = "pawn"
         /\ s[1] # (IF VIRTUAL_BOARD[s].color = "white" THEN 0 ELSE 7))
        => getPawnMove(s) \ canEnPassant(s) = PawnRuleMoves(s) \ canEnPassant(s)

\* after 1.e4 d5 the pawn of e4 is selected: it may advance to e5 or take on d5
C26_Witness ==
    /\ last.ev = "select"
    /\ GameState.selectedPiece.type = "pawn"
    /\ GameState.selectedPiece.positions = <<4, 4>>
    /\ VIRTUAL_BOARD[<<3, 3>>].color = "black"
    /\ getPawnMove(<<4, 4>>) = {<<3, 4>>, <<3, 3>>}

\* a pawn on its starting row behind a piece, with the second square free
C26_WitnessBlocked ==
    \E s \in Squares :
        /\ VIRTUAL_BOARD[s].type = "pawn"
        /\ VIRTUAL_BOARD[s].color = "black"
        /\ s[1] = 1
        /\ VIRTUAL_BOARD[<<2, s[2]>>] # Null
        /\ VIRTUAL_BOARD[<<3, s[2]>>] = Null
        /\ getPawnMove(s) = {}

\* the squares of the ray from s in direction d up to and including the first
\* occupied one
RayAttacks(s, d) ==
    LET reach == {k \in 1..7 : Step(s, d, k) \in Squares}
        occupied == {k \in reach : VIRTUAL_BOARD[Step(s, d, k)] # Null}
    IN {Step(s, d, k) : k \in {n \in reach : \A j \in occupied : n <= j}}

\* C27: for every piece on the board getAttackingMoves returns: for a pawn, its
\* forward diagonals that are on the board, occupied or not, and not the square
\* in front; for a rook, bishop or queen, each ray up to and including the first
\* occupied square whatever stands there; for a knight or king, every offset
\* square on the board, those held by its own colour included.
C27_AttackingMoves ==
    \A s \in Squares :
        LET piece == VIRTUAL_BOARD[s]
            result == getAttackingMoves(s, piece)
            dir == IF piece.color = "white" THEN -1 ELSE 1
        IN /\ piece.type = "pawn" =>
                 /\ result = {sq \in Squares :
                                sq[1] = s[1] + dir /\ sq[2] \in {s[2] - 1, s[2] + 1}}
                 /\ <<s[1] + dir, s[2]>> \notin result
           /\ piece.type = "rook" =>
                 result = UNION {RayAttacks(s, d) : d \in RookDirections}
           /\ piece.type = "bishop" =>
                 result = UNION {RayAttacks(s, d) : d \in BishopDirections}
           /\ piece.type = "queen" =>
                 result = UNION {RayAttacks(s, d) : d \in RookDirections \cup BishopDirections}
           /\ piece.type = "knight" =>
                 result = {sq \in Squares :
                             (sq[1] - s[1]) * (sq[1] - s[1]) +
                             (sq[2] - s[2]) * (sq[2] - s[2]) = 5}
           /\ piece.type = "king" =>
                 result = {sq \in Squares \ {s} :
                             /\ sq[1] - s[1] \in -1..1
                             /\ sq[2] - s[2] \in -1..1}

\* the white queen has just gone to h5: her rays end on the pawn of h7 and on her
\* own pawn of h2, both included, and do not reach h1 or h8
C27_Witness ==
    /\ last.ev = "move"
    /\ last.to = <<3, 7>>
    /\ VIRTUAL_BOARD[<<3, 7>>].type = "queen"
    /\ VIRTUAL_BOARD[<<6, 7>>].color = "white"
    /\ VIRTUAL_BOARD[<<1, 7>>].color = "black"
    /\ {<<6, 7>>, <<1, 7>>} \subseteq getAttackingMoves(<<3, 7>>, VIRTUAL_BOARD[<<3, 7>>])
    /\ <<7, 7>> \notin getAttackingMoves(<<3, 7>>, VIRTUAL_BOARD[<<3, 7>>])
    /\ <<0, 7>> \notin getAttackingMoves(<<3, 7>>, VIRTUAL_BOARD[<<3, 7>>])

\* C28: after updateAttackBoardPosition() of the Set-based iteration, the Set of
\* a square holds a colour iff some piece of that colour on the board the call
\* read has the square in its getAttackingMoves result (ATTACK_BOARD has no other
\* writer, so a handler leaves it as its last call left it).
C28_AttackBoardIsUnionOfAttacks ==
    last.updatedOn # <<>> =>
        \A S \in Squares, C \in Colors :
            C \in ATTACK_BOARD[S] <=>
                \E s \in Squares :
                    /\ last.updatedOn[s] # Null
                    /\ last.updatedOn[s].color = C
                    /\ S \in getAttackingMovesOn(last.updatedOn, s, last.updatedOn[s])

\* 2.Qh5 has just been played and the map was rebuilt for it: f7 is attacked by
\* both colours, h5 by neither, e8 by white
C28_Witness ==
    /\ last.ev = "move"
    /\ last.to = <<3, 7>>
    /\ last.updatedOn # <<>>
    /\ last.updatedOn[<<3, 7>>].type = "queen"
    /\ VIRTUAL_BOARD[<<3, 7>>].type = "queen"
    /\ VIRTUAL_BOARD[<<2, 5>>].type = "pawn"
    /\ ATTACK_BOARD[<<1, 5>>] = Colors
    /\ ATTACK_BOARD[<<3, 7>>] = {}
    /\ ATTACK_BOARD[<<2, 6>>] = Colors
    /\ ATTACK_BOARD[<<4, 4>>] = {}
    /\ ATTACK_BOARD[<<4, 6>>] = {"white"}

\* C29: for a king on the board, canCastle is true for a destination (any column
\* of the king's row: only the column decides the side) only if the
\* squares of the home row strictly between the king and the rook of that side
\* are empty (columns 5 and 6 towards the h-file, 1, 2 and 3 towards the a-file),
\* and every square getKingMove returns beyond the king's eight neighbours is
\* (row, 6) or (row, 2) with canCastle true for it.
C29_CastleNeedsEmptyPath ==
    \A k \in Squares :
        VIRTUAL_BOARD[k].type = "king" =>
            LET color == VIRTUAL_BOARD[k].color
                home == IF color = "white" THEN 7 ELSE 0
                between(toPosition) == IF toPosition[2] > k[2] THEN {5, 6} ELSE {1, 2, 3}
            IN /\ \A toPosition \in {<<k[1], col>> : col \in 0..7} :
                     canCastle(k, toPosition, color) =>
                         \A col \in between(toPosition) :
                             VIRTUAL_BOARD[<<home, col>>] = Null
               /\ \A sq \in getKingMove(k) :
                     \/ sq \in {Step(k, d, 1) : d \in KingOffsets}
                     \/ sq \in {<<k[1], 6>>, <<k[1], 2>>} /\ canCastle(k, sq, color)

\* the white king is selected with f1 and g1 empty: g1 is among its moves
C29_Witness ==
    /\ last.ev = "select"
    /\ GameState.selectedPiece.type = "king"
    /\ GameState.selectedPiece.positions = <<7, 4>>
    /\ VIRTUAL_BOARD[<<7, 5>>] = Null
    /\ VIRTUAL_BOARD[<<7, 6>>] = Null
    /\ canCastle(<<7, 4>>, <<7, 6>>, "white")
    /\ ~canCastle(<<7, 4>>, <<7, 2>>, "white")
    /\ <<7, 6>> \in getKingMove(<<7, 4>>)
    /\ <<7, 2>> \notin getKingMove(<<7, 4>>)

\* C30: isMoveSafe of the Set-based iteration leaves ATTACK_BOARD as it was when
\* it was called (nothing else writes it before the handler ends).
C30_IsMoveSafeRestoresAttackMap ==
    last.attackBefore # <<>> => ATTACK_BOARD = last.attackBefore

\* C31: in every state a handler leaves, the recorded square of each colour's
\* king is the square of the board that holds that king, if the king is on the
\* board.
C31_KingPositionsInSync ==
    \A c \in Colors : \A k \in KingSquares(c) : GameState.kingPositions[c] = k

\* a king has just moved off its home square
C31_Witness ==
    /\ last.ev = "move"
    /\ last.type = "king"
    /\ last.to # InitialGameState.kingPositions[last.color]
    /\ KingSquares(last.color) = {last.to}
    /\ GameState.kingPositions[last.color] = last.to

\* the squares of the board that hold a piece
Occupied(board) == {s \in Squares : board[s] # Null}

\* C32: a handler that commits a move leaves at most one piece fewer on the
\* board than it found.
C32_AtMostOnePieceRemoved ==
    [][Committed(last') =>
          Cardinality(Occupied(VIRTUAL_BOARD')) >=
              Cardinality(Occupied(VIRTUAL_BOARD)) - 1]_vars

\* C33: the destination square of a committed move is empty or holds a piece of
\* the other colour than the piece the move puts there.
C33_NoOwnPieceOverwritten ==
    [][Committed(last') =>
          VIRTUAL_BOARD[last'.to].color # VIRTUAL_BOARD'[last'.to].color]_vars

\* C34: in every state a handler leaves, a selected piece has the colour of the
\* player to move and is the piece standing on the square it records.
C34_SelectionIsOwnPieceOnBoard ==
    GameState.selectedPiece # Null =>
        /\ GameState.selectedPiece.color = GameState.currentPlayer
        /\ GameState.selectedPiece.positions \in Squares
        /\ VIRTUAL_BOARD[GameState.selectedPiece.positions] = GameState.selectedPiece

\* black's selection has outlived a rejected destination, after moves of both
\* colours
C34_Witness ==
    /\ last.ev = "illegal"
    /\ GameState.currentPlayer = "black"
    /\ GameState.selectedPiece # Null
    /\ GameState.selectedPiece.color = "black"
    /\ VIRTUAL_BOARD[GameState.selectedPiece.positions] = GameState.selectedPiece
    /\ VIRTUAL_BOARD[GameState.selectedPiece.positions]
          # addPieces[GameState.selectedPiece.positions]

\* C35: with the promotion choices of the dialog, every square getPossibleMoves
\* returns for a piece on the board is a square of the board; getPawnMove's
\* unchecked square in front is on the board because no pawn stands on its last
\* rank.
C35_PossibleMovesOnBoard ==
    /\ \A s \in Squares :
          VIRTUAL_BOARD[s] # Null =>
              \A sq \in getPossibleMoves(s, VIRTUAL_BOARD[s]) :
                  sq[1] \in 0..7 /\ sq[2] \in 0..7
    /\ \A s \in Squares :
          VIRTUAL_BOARD[s].type = "pawn" =>
              s[1] # (IF VIRTUAL_BOARD[s].color = "white" THEN 0 ELSE 7)

\* the white pawn of g7 is selected, one row from its last rank: its moves are
\* the capture on h8 and nothing off the board
C35_Witness ==
    /\ last.ev = "select"
    /\ GameState.selectedPiece.type = "pawn"
    /\ GameState.selectedPiece.color = "white"
    /\ GameState.selectedPiece.positions = <<1, 6>>
    /\ <<0, 7>> \in getPawnMove(<<1, 6>>)
    /\ getPawnMove(<<1, 6>>) \subseteq Squares

\* a promotion has been made and the piece on the last rank is no pawn
C35_WitnessPromoted ==
    /\ last.ev = "promote"
    /\ VIRTUAL_BOARD[last.to] # Null
    /\ VIRTUAL_BOARD[last.to].type # "pawn"
    /\ getPossibleMoves(last.to, VIRTUAL_BOARD[last.to]) \subseteq Squares

\* C36: the piece promotePawn places has the colour of the pawn for which the
\* promotion choice was put on display.
C36_PromotionKeepsPawnColour ==
    [][last'.ev = "promote" =>
          /\ history.prompted # <<>>
          /\ VIRTUAL_BOARD'[last'.to].color = history.prompted[3]]_vars

\* C37: after set and after reset, every callback that is still subscribed has
\* been invoked exactly once in the notification, with the new state.
C37_SubscribedListenersNotifiedOnce ==
    last.ev \in {"set", "reset"} =>
        \A i \in 1..Len(listeners) :
            /\ clients.calls[listeners[i]] = 1
            /\ clients.received[listeners[i]] = GameState

====
